---- MODULE Spec2Model ----
(***************************************************************************)
(* Model of the P&ID editor's document graph and the operations of         *)
(* src/Canvas.tsx that edit it: addEquipment / addFitting / addInstrument, *)
(* the connection gesture (startConnection, handleMouseUpConnection,       *)
(* cancelConnection, createConnection), the three update*Position          *)
(* functions behind the drag handlers, selectElement and                   *)
(* deleteSelectedElement.                                                  *)
(*                                                                         *)
(* The React state `document` is the variable doc; every setDocument       *)
(* updater is an operator from the previous document to the next one.      *)
(* elementsRef / portsRef are the variables elements / ports.  Handlers    *)
(* are taken as invoked on the component's current state (document,        *)
(* selectedElement, connectionInProgress); values bound in a handler's     *)
(* own closure when an element is put on the canvas (the start point of a  *)
(* port's mousedown handler) keep the value they had at that time.         *)
(* createDexpiId is modelled as a fresh-number supply.                     *)
(*                                                                         *)
(* used counts the entities and the segments brought into the document so  *)
(* far; last is "mouseUpSame" right after a mouseup over the port the      *)
(* gesture started on, "other" after any other handler; in the section     *)
(* "the gesture as written" it is the name of an event nothing handled.    *)
(*                                                                         *)
(* shellDocument is the `document` state of the application shell that     *)
(* mounts the Canvas with initialDocument and onDocumentChange; the effect *)
(* of Canvas.tsx 234-238 hands it the Canvas document after every          *)
(* setDocument of the Canvas.                                              *)
(*                                                                         *)
(* tempLines counts the dashed lines startConnection has drawn in the      *)
(* connection layer and nothing has removed; listeners holds the events    *)
(* for which a handler of the gesture is registered.  In the actions of    *)
(* Next the listeners of lines 601-602 are taken as registered on the      *)
(* page and run on the current state, like every other handler; the        *)
(* section "the gesture as written" models them as the text has them.      *)
(***************************************************************************)
EXTENDS Integers, Sequences, FiniteSets, TLC

VARIABLES doc, elements, ports, selectedElement, connectionInProgress, nextId, used, last,
          shellDocument, tempLines, listeners

vars == <<doc, elements, ports, selectedElement, connectionInProgress, nextId, used, last,
          shellDocument, tempLines, listeners>>

\* ------------------------------------------------------------------ bounds
MaxCreated == 3
MaxPos == 1

\* ------------------------------------------------------- program constants
NoId == 0
GhostId == 0 - 1
Null == [kind |-> "null"]

Pt(x, y) == [x |-> x, y |-> y]

Positions == { Pt(10 * i, 20 * i) : i \in 0..MaxPos }

SYMBOL_PATHS ==
  [ VESSEL |-> << [x |-> 0, y |-> 0 - 50, name |-> "top"],
                  [x |-> 0, y |-> 50, name |-> "bottom"],
                  [x |-> 0 - 30, y |-> 0, name |-> "left"],
                  [x |-> 30, y |-> 0, name |-> "right"] >>,
    PUMP |-> << [x |-> 0 - 25, y |-> 0, name |-> "suction"],
                [x |-> 25, y |-> 0, name |-> "discharge"] >>,
    HEAT_EXCHANGER |-> << [x |-> 0 - 40, y |-> 0 - 10, name |-> "shell in"],
                          [x |-> 40, y |-> 0 - 10, name |-> "shell out"],
                          [x |-> 0 - 40, y |-> 10, name |-> "tube in"],
                          [x |-> 40, y |-> 10, name |-> "tube out"] >>,
    COLUMN |-> << [x |-> 0, y |-> 0 - 75, name |-> "top"],
                  [x |-> 0, y |-> 75, name |-> "bottom"],
                  [x |-> 0 - 25, y |-> 0 - 25, name |-> "feed upper"],
                  [x |-> 0 - 25, y |-> 25, name |-> "feed lower"],
                  [x |-> 25, y |-> 0 - 50, name |-> "side draw upper"],
                  [x |-> 25, y |-> 0, name |-> "side draw middle"],
                  [x |-> 25, y |-> 50, name |-> "side draw lower"] >> ]

FITTING_PATHS ==
  [ VALVE |-> << [x |-> 0 - 15, y |-> 0, name |-> "inlet"],
                 [x |-> 15, y |-> 0, name |-> "outlet"] >>,
    CHECK_VALVE |-> << [x |-> 0 - 15, y |-> 0, name |-> "inlet"],
                       [x |-> 15, y |-> 0, name |-> "outlet"] >>,
    CONTROL_VALVE |-> << [x |-> 0 - 15, y |-> 0, name |-> "inlet"],
                         [x |-> 15, y |-> 0, name |-> "outlet"] >> ]

INSTRUMENT_PATHS ==
  [ INDICATOR |-> << [x |-> 0, y |-> 15, name |-> "process"] >>,
    TRANSMITTER |-> << [x |-> 0, y |-> 15, name |-> "process"],
                       [x |-> 15, y |-> 0, name |-> "signal"] >>,
    CONTROLLER |-> << [x |-> 0 - 15, y |-> 0, name |-> "input"],
                      [x |-> 15, y |-> 0, name |-> "output"] >> ]

\* the lookup as it would be if every type were drawn as a pump
EquipmentSymbolPump(type) == SYMBOL_PATHS["PUMP"]

\* symbolData = SYMBOL_PATHS[type] || SYMBOL_PATHS[EquipmentType.VESSEL]
EquipmentSymbol(type) ==
  IF type \in DOMAIN SYMBOL_PATHS THEN SYMBOL_PATHS[type] ELSE SYMBOL_PATHS["VESSEL"]

FittingSymbol(type) ==
  IF type \in DOMAIN FITTING_PATHS THEN FITTING_PATHS[type] ELSE FITTING_PATHS["VALVE"]

InstrumentSymbol(type) ==
  IF type \in DOMAIN INSTRUMENT_PATHS THEN INSTRUMENT_PATHS[type]
  ELSE INSTRUMENT_PATHS["INDICATOR"]

\* the types the tool palette is driven with in the model
EquipmentInputs == {"PUMP"}
FittingInputs == {"VALVE"}
InstrumentInputs == {"INDICATOR"}

\* ------------------------------------------------------------ seq helpers
Range(s) == { s[i] : i \in 1..Len(s) }

MapSeq(s, F(_)) == [i \in 1..Len(s) |-> F(s[i])]

RECURSIVE FlattenSeq(_)
FlattenSeq(ss) == IF Len(ss) = 0 THEN <<>> ELSE Head(ss) \o FlattenSeq(Tail(ss))

\* Array.prototype.find: the first element satisfying the test, as an index (0: none)
FindIndex(s, Test(_)) ==
  IF \E i \in 1..Len(s) : Test(s[i])
  THEN CHOOSE i \in 1..Len(s) : Test(s[i]) /\ \A j \in 1..(i - 1) : ~Test(s[j])
  ELSE 0

RemoveKeys(f, ks) == [k \in DOMAIN f \ ks |-> f[k]]

\* ---------------------------------------------------------- document reads
AllFittings(d) == FlattenSeq(MapSeq(d.pipingNetworks, LAMBDA n : n.fittings))

AllSegments(d) == FlattenSeq(MapSeq(d.pipingNetworks, LAMBDA n : n.lineSegments))

AllSignalLines(d) == FlattenSeq(MapSeq(d.instruments, LAMBDA i : i.signalLines))

AllLines(d) == FlattenSeq(MapSeq(d.pipingNetworks, LAMBDA n : n.lines))

NozzleIds(eq) == { eq.nozzles[i].id : i \in 1..Len(eq.nozzles) }

PointIds(e) == { e.connectionPoints[i].id : i \in 1..Len(e.connectionPoints) }

\* every port of the document, as records [id, owner, position]
DocPorts(d) ==
  UNION { { [id |-> e.nozzles[i].id, owner |-> e.id, position |-> e.nozzles[i].position]
            : i \in 1..Len(e.nozzles) } : e \in Range(d.equipment) }
  \cup
  UNION { { [id |-> f.connectionPoints[i].id, owner |-> f.id,
             position |-> f.connectionPoints[i].position]
            : i \in 1..Len(f.connectionPoints) } : f \in Range(AllFittings(d)) }
  \cup
  UNION { { [id |-> n.connectionPoints[i].id, owner |-> n.id,
             position |-> n.connectionPoints[i].position]
            : i \in 1..Len(n.connectionPoints) } : n \in Range(d.instruments) }

DocPortIds(d) == { p.id : p \in DocPorts(d) }

PortPosition(d, id) == (CHOOSE p \in DocPorts(d) : p.id = id).position

EntityIds(d) ==
  { e.id : e \in Range(d.equipment) } \cup { f.id : f \in Range(AllFittings(d)) }
  \cup { n.id : n \in Range(d.instruments) }

\* ----------------------------------------------------- createEmptyDocument
createEmptyDocument ==
  [ id |-> 1, name |-> "New P&ID", equipment |-> <<>>, pipingNetworks |-> <<>>,
    instruments |-> <<>>, processConnections |-> <<>>,
    createdDate |-> "2024-01-01T00:00:00.000Z" ]

\* -------------------------------------------------------------- add: model
\* the equipment as it would be if its nozzles were given the equipment's own id
NewEquipmentSharingId(type, position, id) ==
  LET symbolData == EquipmentSymbol(type) IN
  [ id |-> id, type |-> type, position |-> position,
    nozzles |-> [ i \in 1..Len(symbolData) |->
                    [ id |-> id, equipmentId |-> id, name |-> symbolData[i].name,
                      position |-> Pt(position.x + symbolData[i].x,
                                      position.y + symbolData[i].y) ] ] ]

\* addEquipment, lines 1309-1342: the equipment appended by the updater
NewEquipment(type, position, id) ==
  LET symbolData == EquipmentSymbol(type) IN
  [ id |-> id, type |-> type, position |-> position,
    nozzles |-> [ i \in 1..Len(symbolData) |->
                    [ id |-> id + i, equipmentId |-> id, name |-> symbolData[i].name,
                      position |-> Pt(position.x + symbolData[i].x,
                                      position.y + symbolData[i].y) ] ] ]

addEquipmentDoc(prev, type, position, id) ==
  [prev EXCEPT !.equipment = Append(@, NewEquipment(type, position, id))]

NewFitting(type, position, id) ==
  LET symbolData == FittingSymbol(type) IN
  [ id |-> id, fittingType |-> type, position |-> position,
    connectionPoints |-> [ i \in 1..Len(symbolData) |->
                    [ id |-> id + i, fittingId |-> id, name |-> symbolData[i].name,
                      position |-> Pt(position.x + symbolData[i].x,
                                      position.y + symbolData[i].y) ] ] ]

\* the test as it would be if no network were ever recognised as the default one
IsNeverDefaultNetwork(n) == FALSE

IsDefaultNetwork(n) == n.name = "Default Network"

IsDefaultLine(l) == l.name = "Default Line"

\* addFitting as it would be if it never looked for an existing default network
addFittingDocFresh(document, prev, fitting, networkId) ==
  [prev EXCEPT !.pipingNetworks =
     << [ id |-> networkId, name |-> "Default Network", lines |-> <<>>,
          fittings |-> <<fitting>>, lineSegments |-> <<>> ] >>]

\* addFitting, lines 1383-1422; document is the state the handler runs on
addFittingDoc(document, prev, fitting, networkId) ==
  LET k == FindIndex(document.pipingNetworks, IsDefaultNetwork) IN
  IF k = 0
  THEN [prev EXCEPT !.pipingNetworks =
          Append(@, [ id |-> networkId, name |-> "Default Network", lines |-> <<>>,
                      fittings |-> <<fitting>>, lineSegments |-> <<>> ])]
  ELSE [prev EXCEPT !.pipingNetworks =
          MapSeq(@, LAMBDA n : IF n.id = document.pipingNetworks[k].id
                               THEN [n EXCEPT !.fittings = Append(@, fitting)]
                               ELSE n)]

NewInstrument(type, position, id) ==
  LET symbolData == InstrumentSymbol(type) IN
  [ id |-> id, instrumentType |-> type, position |-> position,
    connectionPoints |-> [ i \in 1..Len(symbolData) |->
                    [ id |-> id + i, instrumentId |-> id,
                      position |-> Pt(position.x + symbolData[i].x,
                                      position.y + symbolData[i].y) ] ],
    signalLines |-> <<>> ]

addInstrumentDoc(prev, type, position, id) ==
  [prev EXCEPT !.instruments = Append(@, NewInstrument(type, position, id))]

\* ------------------------------------------------------------ canvas: model
\* add*ToCanvas: the group registered in elementsRef, placed by group.move(position)
GroupElement(kind, position) == [type |-> kind, x |-> position.x, y |-> position.y]

\* the port circles registered in portsRef: centre relative to the group, and the
\* start point bound in the circle's mousedown handler
PortElements(owner, position, portSeq) ==
  [ id \in { portSeq[i].id : i \in 1..Len(portSeq) } |->
      LET p == CHOOSE q \in Range(portSeq) : q.id = id IN
      [ cx |-> p.position.x - position.x, cy |-> p.position.y - position.y,
        group |-> owner,
        startPoint |-> Pt(position.x + (p.position.x - position.x),
                          position.y + (p.position.y - position.y)) ] ]

addEquipmentToCanvas(els, equipment) ==
  (equipment.id :> GroupElement("equipment", equipment.position)) @@ els

addFittingToCanvas(els, fitting) ==
  (fitting.id :> GroupElement("fitting", fitting.position)) @@ els

addInstrumentToCanvas(els, instrument) ==
  (instrument.id :> GroupElement("instrument", instrument.position)) @@ els

addLineSegmentToCanvas(els, segment) ==
  (segment.id :> [type |-> "line-segment", x |-> 0, y |-> 0]) @@ els

\* selectElement: the new value of selectedElement
selectElement(els, elementId) ==
  IF elementId # NoId /\ elementId \in DOMAIN els THEN elementId ELSE NoId

\* createConnection as it would be if it put the new segment in place of the
\* networks it found
createConnectionDocReplacing(document, prev, startPortId, endPortId, startPoint, endPoint, segmentId) ==
  [prev EXCEPT !.pipingNetworks =
     << [ id |-> segmentId + 1, name |-> "Default Network",
          lines |-> << [id |-> segmentId + 2, name |-> "Default Line",
                        segments |-> <<segmentId>>] >>,
          fittings |-> <<>>,
          lineSegments |-> << [ id |-> segmentId, lineId |-> segmentId + 2,
                                startPoint |-> startPoint, endPoint |-> endPoint,
                                startConnectedTo |-> startPortId,
                                endConnectedTo |-> endPortId ] >> ] >>]

\* -------------------------------------------------------- createConnection
\* lines 691-762: document is the state the function reads, prev the state the
\* updaters run on; segmentId, networkId and lineId are the ids drawn in that order
createConnectionDoc(document, prev, startPortId, endPortId, startPoint, endPoint, segmentId) ==
  LET k == FindIndex(document.pipingNetworks, IsDefaultNetwork)
      networkId == IF k = 0 THEN segmentId + 1 ELSE document.pipingNetworks[k].id
      network0 == IF k = 0
                  THEN [ id |-> networkId, name |-> "Default Network", lines |-> <<>>,
                         fittings |-> <<>>, lineSegments |-> <<>> ]
                  ELSE document.pipingNetworks[k]
      l == FindIndex(network0.lines, IsDefaultLine)
      lineId == IF l # 0 THEN network0.lines[l].id
                ELSE IF k = 0 THEN segmentId + 2 ELSE segmentId + 1
      lines1 == IF l = 0
                THEN Append(network0.lines,
                            [id |-> lineId, name |-> "Default Line", segments |-> <<>>])
                ELSE network0.lines
      li == IF l = 0 THEN Len(lines1) ELSE l
      lines2 == [lines1 EXCEPT ![li].segments = Append(@, segmentId)]
      segment == [ id |-> segmentId, lineId |-> lineId,
                   startPoint |-> startPoint, endPoint |-> endPoint,
                   startConnectedTo |-> startPortId, endConnectedTo |-> endPortId ]
      network == [network0 EXCEPT !.lines = lines2,
                                  !.lineSegments = Append(@, segment)]
      prev1 == IF k = 0
               THEN [prev EXCEPT !.pipingNetworks = Append(@, network)]
               ELSE prev
  IN [prev1 EXCEPT !.pipingNetworks =
        MapSeq(@, LAMBDA n : IF n.id = networkId THEN network ELSE n)]

\* ------------------------------------------- createConnection: shared objects
\* the object `document` as it reads once createConnection has returned: a network
\* found at line 697 is an element of document.pipingNetworks, and lines 731, 737
\* and 750 push into it and into its line; a network made at 701 is a new object
documentAfterCreateConnection(document, startPortId, endPortId, startPoint, endPoint, segmentId) ==
  IF FindIndex(document.pipingNetworks, IsDefaultNetwork) = 0
  THEN document
  ELSE createConnectionDoc(document, document, startPortId, endPortId,
                           startPoint, endPoint, segmentId)

\* the state set at 710-713 (the new network appended), read before line 731
\* (pushed = FALSE) or after line 750 (pushed = TRUE): its last network is the
\* object the pushes change
firstSetDocument(prev, startPortId, endPortId, startPoint, endPoint, segmentId, pushed) ==
  IF pushed
  THEN createConnectionDoc(prev, prev, startPortId, endPortId, startPoint, endPoint, segmentId)
  ELSE [prev EXCEPT !.pipingNetworks =
          Append(@, [ id |-> segmentId + 1, name |-> "Default Network", lines |-> <<>>,
                      fittings |-> <<>>, lineSegments |-> <<>> ])]

\* the deliveries as they would be if the effect ran inside the first setDocument
documentsDeliveredAtCommit(document, startPortId, endPortId, startPoint, endPoint, segmentId, batched) ==
  << firstSetDocument(document, startPortId, endPortId, startPoint, endPoint, segmentId, FALSE),
     createConnectionDoc(document, document, startPortId, endPortId,
                         startPoint, endPoint, segmentId) >>

\* the documents the effect of lines 234-238 hands to onDocumentChange for one
\* createConnection, each as it reads when handed over.  batched: the two
\* setDocument calls of the mouseup listener are rendered together; otherwise each
\* is rendered inside the call, and the effect of the first render runs when the
\* second begins, after the pushes of 731-750
documentsDelivered(document, startPortId, endPortId, startPoint, endPoint, segmentId, batched) ==
  LET final == createConnectionDoc(document, document, startPortId, endPortId,
                                   startPoint, endPoint, segmentId)
  IN IF batched \/ FindIndex(document.pipingNetworks, IsDefaultNetwork) # 0
     THEN << final >>
     ELSE << firstSetDocument(document, startPortId, endPortId, startPoint, endPoint,
                              segmentId, TRUE),
             final >>

\* the number of ids createConnection draws
createConnectionIds(document) ==
  LET k == FindIndex(document.pipingNetworks, IsDefaultNetwork) IN
  IF k = 0 THEN 3
  ELSE IF FindIndex(document.pipingNetworks[k].lines, IsDefaultLine) = 0 THEN 2 ELSE 1

\* handleMouseUpConnection, lines 643-648: cx/cy of the circle plus x/y of its group
PortElementPosition(els, prts, portId) ==
  Pt(prts[portId].cx + els[prts[portId].group].x,
     prts[portId].cy + els[prts[portId].group].y)

\* ------------------------------------------------------------- move: model
\* the point as it would be if the old position were not subtracted
TranslateFromOrigin(point, oldPosition, newPosition) ==
  Pt(newPosition.x + point.x, newPosition.y + point.y)

\* the point as it would be if a move left it where it was
TranslateNot(point, oldPosition, newPosition) == point

\* newPosition + (point - oldPosition), with (position?.x || 0) for the old one
Translate(point, oldPosition, newPosition) ==
  Pt(newPosition.x + (point.x - oldPosition.x), newPosition.y + (point.y - oldPosition.y))

\* the recomputation as it would be without the tests on *ConnectedTo
MoveEndpointsAll(segment, portIds, oldPosition, newPosition) ==
  [segment EXCEPT !.startPoint = Translate(@, oldPosition, newPosition),
                  !.endPoint = Translate(@, oldPosition, newPosition)]

\* the endpoint recomputation both piping branches and the signal-line branch share
MoveEndpoints(segment, portIds, oldPosition, newPosition) ==
  [segment EXCEPT
     !.startPoint = IF segment.startConnectedTo \in portIds
                    THEN Translate(@, oldPosition, newPosition) ELSE @,
     !.endPoint = IF segment.endConnectedTo \in portIds
                  THEN Translate(@, oldPosition, newPosition) ELSE @]

\* the ports as they would be if a move left them where they were
MovePortsNot(portSeq, oldPosition, newPosition) == portSeq

MovePorts(portSeq, oldPosition, newPosition) ==
  MapSeq(portSeq, LAMBDA p :
           [p EXCEPT !.position = Translate(@, oldPosition, newPosition)])

\* updateEquipmentPosition, lines 769-867
updateEquipmentPosition(prev, equipmentId, newPosition) ==
  LET updatedEquipment ==
        MapSeq(prev.equipment, LAMBDA eq :
          IF eq.id = equipmentId
          THEN [eq EXCEPT !.position = newPosition,
                          !.nozzles = MovePorts(@, eq.position, newPosition)]
          ELSE eq)
      e == FindIndex(prev.equipment, LAMBDA eq : eq.id = equipmentId)
      updatedNetworks ==
        MapSeq(prev.pipingNetworks, LAMBDA network :
          [network EXCEPT !.lineSegments =
             MapSeq(@, LAMBDA segment :
               IF e # 0
               THEN MoveEndpoints(segment, NozzleIds(prev.equipment[e]),
                                  prev.equipment[e].position, newPosition)
               ELSE segment)])
  IN [prev EXCEPT !.equipment = updatedEquipment, !.pipingNetworks = updatedNetworks]

\* updateFittingPosition, lines 870-983
updateFittingPosition(prev, fittingId, newPosition) ==
  LET HasFitting(network) == \E f \in Range(network.fittings) : f.id = fittingId
      t == FindIndex(prev.pipingNetworks, HasFitting)
  IN
  IF t = 0 THEN prev
  ELSE
    LET targetNetwork == prev.pipingNetworks[t]
        targetFitting ==
          targetNetwork.fittings[FindIndex(targetNetwork.fittings,
                                           LAMBDA f : f.id = fittingId)]
    IN [prev EXCEPT !.pipingNetworks =
          MapSeq(@, LAMBDA network :
            IF network.id # targetNetwork.id THEN network
            ELSE [network EXCEPT
                    !.fittings =
                       MapSeq(@, LAMBDA fitting :
                         IF fitting.id # fittingId THEN fitting
                         ELSE [fitting EXCEPT
                                 !.position = newPosition,
                                 !.connectionPoints =
                                    MovePorts(@, fitting.position, newPosition)]),
                    !.lineSegments =
                       MapSeq(@, LAMBDA segment :
                         MoveEndpoints(segment, PointIds(targetFitting),
                                       targetFitting.position, newPosition))])]

\* updateInstrumentPosition, lines 986-1052
updateInstrumentPosition(prev, instrumentId, newPosition) ==
  [prev EXCEPT !.instruments =
     MapSeq(@, LAMBDA inst :
       IF inst.id # instrumentId THEN inst
       ELSE [inst EXCEPT
               !.position = newPosition,
               !.connectionPoints = MovePorts(@, inst.position, newPosition),
               !.signalLines =
                  MapSeq(@, LAMBDA line :
                    MoveEndpoints(line, PointIds(inst), inst.position, newPosition))])]

\* ----------------------------------------------------------- delete: model
Filter(sq, Keep(_)) == SelectSeq(sq, Keep)

\* the selection as it would be without the test on the segment's ends
AllSegmentIds(segs, portIds) == { sg.id : sg \in Range(segs) }

\* ids of the segments among segs with an end at one of portIds
ConnectedSegmentIds(segs, portIds) ==
  { sg.id : sg \in { x \in Range(segs) :
                       x.startConnectedTo \in portIds \/ x.endConnectedTo \in portIds } }

\* the same with the filter on the lines' lists alone
WithoutReferencesOnly(network, ids) ==
  [network EXCEPT
     !.lines = MapSeq(@, LAMBDA line :
                 [line EXCEPT !.segments = Filter(@, LAMBDA id : id \notin ids)])]

\* the same without the filter on the lines' lists
WithoutSegmentsOnly(network, ids) ==
  [network EXCEPT !.lineSegments = Filter(@, LAMBDA segment : segment.id \notin ids)]

\* a network without the segments in ids, in lineSegments and in every line's list
WithoutSegments(network, ids) ==
  [network EXCEPT
     !.lineSegments = Filter(@, LAMBDA segment : segment.id \notin ids),
     !.lines = MapSeq(@, LAMBDA line :
                 [line EXCEPT !.segments = Filter(@, LAMBDA id : id \notin ids)])]

\* deleteSelectedElement, equipment branch, lines 1093-1142
EquipmentConnected(prev, selected) ==
  LET e == FindIndex(prev.equipment, LAMBDA eq : eq.id = selected) IN
  IF e = 0 THEN {}
  ELSE ConnectedSegmentIds(AllSegments(prev), NozzleIds(prev.equipment[e]))

deleteEquipment(prev, selected) ==
  LET e == FindIndex(prev.equipment, LAMBDA eq : eq.id = selected) IN
  IF e = 0 THEN prev
  ELSE [prev EXCEPT
          !.equipment = Filter(@, LAMBDA eq : eq.id # selected),
          !.pipingNetworks =
             MapSeq(@, LAMBDA network :
               WithoutSegments(network, EquipmentConnected(prev, selected)))]

\* deleteSelectedElement, fitting branch, lines 1145-1205
FittingNetworkIndex(prev, selected) ==
  FindIndex(prev.pipingNetworks,
            LAMBDA network : \E f \in Range(network.fittings) : f.id = selected)

FittingConnected(prev, selected) ==
  LET t == FittingNetworkIndex(prev, selected) IN
  IF t = 0 THEN {}
  ELSE LET targetNetwork == prev.pipingNetworks[t]
           targetFitting ==
             targetNetwork.fittings[FindIndex(targetNetwork.fittings,
                                              LAMBDA f : f.id = selected)]
       IN ConnectedSegmentIds(targetNetwork.lineSegments, PointIds(targetFitting))

deleteFitting(prev, selected) ==
  LET t == FittingNetworkIndex(prev, selected) IN
  IF t = 0 THEN prev
  ELSE [prev EXCEPT !.pipingNetworks =
          MapSeq(@, LAMBDA network :
            IF network.id # prev.pipingNetworks[t].id THEN network
            ELSE [WithoutSegments(network, FittingConnected(prev, selected))
                    EXCEPT !.fittings = Filter(@, LAMBDA f : f.id # selected)])]

\* deleteSelectedElement, instrument branch, lines 1208-1257
InstrumentConnected(prev, selected) ==
  LET i == FindIndex(prev.instruments, LAMBDA inst : inst.id = selected) IN
  IF i = 0 THEN {}
  ELSE ConnectedSegmentIds(AllSegments(prev), PointIds(prev.instruments[i]))

deleteInstrument(prev, selected) ==
  LET i == FindIndex(prev.instruments, LAMBDA inst : inst.id = selected) IN
  IF i = 0 THEN prev
  ELSE [prev EXCEPT
          !.instruments = Filter(@, LAMBDA inst : inst.id # selected),
          !.pipingNetworks =
             MapSeq(@, LAMBDA network :
               WithoutSegments(network, InstrumentConnected(prev, selected)))]

\* the branch as it would be if it emptied the network of the segment
deleteLineSegmentNetwork(prev, selected) ==
  [prev EXCEPT !.pipingNetworks =
     MapSeq(@, LAMBDA network :
       IF \E sg \in Range(network.lineSegments) : sg.id = selected
       THEN WithoutSegments(network, { sg.id : sg \in Range(network.lineSegments) })
       ELSE network)]

\* deleteSelectedElement, line-segment branch, lines 1260-1298
deleteLineSegment(prev, selected) ==
  LET t == FindIndex(prev.pipingNetworks,
                     LAMBDA network : \E sg \in Range(network.lineSegments) : sg.id = selected)
  IN
  IF t = 0 THEN prev
  ELSE [prev EXCEPT !.pipingNetworks =
          MapSeq(@, LAMBDA network :
            IF network.id # prev.pipingNetworks[t].id THEN network
            ELSE WithoutSegments(network, {selected}))]

\* the ports removed from portsRef as they would be if a deletion removed none
NoOwnedPortIds(prev, selected) == {}

\* the ports dropped from portsRef by a delete branch
OwnedPortIds(prev, selected) ==
  UNION { NozzleIds(eq) : eq \in { x \in Range(prev.equipment) : x.id = selected } }
  \cup UNION { PointIds(f) : f \in { x \in Range(AllFittings(prev)) : x.id = selected } }
  \cup UNION { PointIds(n) : n \in { x \in Range(prev.instruments) : x.id = selected } }

\* ------------------------------------------------------- initial documents
\* a document as decoded from a file: one piping network of its own name holding a valve
AreaDocument ==
  [ id |-> 5, equipment |-> <<>>,
    pipingNetworks |->
      << [ id |-> 1, name |-> "Area 1", lines |-> <<>>,
           fittings |-> << NewFitting("VALVE", Pt(0, 0), 2) >>,
           lineSegments |-> <<>> ] >>,
    instruments |-> <<>>, processConnections |-> <<>> ]

\* a document with a transmitter wired to a controller by a signal line
LoopDocument ==
  LET transmitter == NewInstrument("TRANSMITTER", Pt(0, 0), 1)
      controller == NewInstrument("CONTROLLER", Pt(10, 20), 4)
      signal == [ id |-> 7,
                  startPoint |-> transmitter.connectionPoints[2].position,
                  endPoint |-> controller.connectionPoints[1].position,
                  startConnectedTo |-> transmitter.connectionPoints[2].id,
                  endConnectedTo |-> controller.connectionPoints[1].id ]
  IN [ id |-> 8, equipment |-> <<>>, pipingNetworks |-> <<>>,
       instruments |-> << [transmitter EXCEPT !.signalLines = <<signal>>], controller >>,
       processConnections |-> <<>> ]

InitialDocuments == { createEmptyDocument, AreaDocument, LoopDocument }

MaxIdOf(d) ==
  LET ids == { d.id } \cup EntityIds(d) \cup DocPortIds(d)
             \cup { n.id : n \in Range(d.pipingNetworks) }
             \cup { l.id : l \in Range(AllLines(d)) }
             \cup { sg.id : sg \in Range(AllSegments(d)) }
             \cup { sl.id : sl \in Range(AllSignalLines(d)) }
  IN CHOOSE m \in ids : \A i \in ids : i <= m

\* loadDocument, lines 277-310: the registries after the document is drawn
RECURSIVE LoadElements(_, _)
LoadElements(els, items) ==
  IF Len(items) = 0 THEN els
  ELSE LET it == Head(items) IN
       LoadElements((it.id :> [type |-> it.kind, x |-> it.x, y |-> it.y]) @@ els, Tail(items))

RECURSIVE LoadPorts(_, _)
LoadPorts(prts, owners) ==
  IF Len(owners) = 0 THEN prts
  ELSE LET o == Head(owners) IN
       LoadPorts(PortElements(o.id, o.position, o.portSeq) @@ prts, Tail(owners))

loadDocumentElements(d) ==
  LoadElements(<<>>,
    MapSeq(d.equipment, LAMBDA e :
      [id |-> e.id, kind |-> "equipment", x |-> e.position.x, y |-> e.position.y])
    \o MapSeq(AllFittings(d), LAMBDA f :
      [id |-> f.id, kind |-> "fitting", x |-> f.position.x, y |-> f.position.y])
    \o MapSeq(AllSegments(d), LAMBDA sg :
      [id |-> sg.id, kind |-> "line-segment", x |-> 0, y |-> 0])
    \o MapSeq(d.instruments, LAMBDA n :
      [id |-> n.id, kind |-> "instrument", x |-> n.position.x, y |-> n.position.y]))

loadDocumentPorts(d) ==
  LoadPorts(<<>>,
    MapSeq(d.equipment, LAMBDA e :
      [id |-> e.id, position |-> e.position, portSeq |-> e.nozzles])
    \o MapSeq(AllFittings(d), LAMBDA f :
      [id |-> f.id, position |-> f.position, portSeq |-> f.connectionPoints])
    \o MapSeq(d.instruments, LAMBDA n :
      [id |-> n.id, position |-> n.position, portSeq |-> n.connectionPoints]))

Init ==
  /\ doc \in InitialDocuments
  /\ elements = loadDocumentElements(doc)
  /\ ports = loadDocumentPorts(doc)
  /\ selectedElement = NoId
  /\ connectionInProgress = Null
  /\ nextId = MaxIdOf(doc) + 1
  /\ used = [added |-> Cardinality(EntityIds(doc)), connected |-> 0]
  /\ last = "init"
  /\ shellDocument = doc
  /\ tempLines = 0
  /\ listeners = {}

\* ----------------------------------------------------------------- actions
\* handleCanvasClick with the equipment tool: addEquipment
AddEquipment(type, position) ==
  LET equipment == NewEquipment(type, position, nextId) IN
  /\ connectionInProgress = Null
  /\ used.added + used.connected < MaxCreated
  /\ doc' = addEquipmentDoc(doc, type, position, nextId)
  /\ elements' = addEquipmentToCanvas(elements, equipment)
  /\ ports' = PortElements(equipment.id, position, equipment.nozzles) @@ ports
  /\ selectedElement' = selectElement(elements', equipment.id)
  /\ nextId' = nextId + 1 + Len(equipment.nozzles)
  /\ used' = [used EXCEPT !.added = @ + 1]
  /\ last' = "other"
  /\ shellDocument' = doc'
  /\ UNCHANGED <<tempLines, listeners>>
  /\ UNCHANGED connectionInProgress

\* handleCanvasClick with the fitting tool: addFitting
AddFitting(type, position) ==
  LET fitting == NewFitting(type, position, nextId)
      networkId == nextId + 1 + Len(fitting.connectionPoints)
      created == FindIndex(doc.pipingNetworks, IsDefaultNetwork) = 0
  IN
  /\ connectionInProgress = Null
  /\ used.added + used.connected < MaxCreated
  /\ doc' = addFittingDoc(doc, doc, fitting, networkId)
  /\ elements' = addFittingToCanvas(elements, fitting)
  /\ ports' = PortElements(fitting.id, position, fitting.connectionPoints) @@ ports
  /\ selectedElement' = selectElement(elements', fitting.id)
  /\ nextId' = IF created THEN networkId + 1 ELSE networkId
  /\ used' = [used EXCEPT !.added = @ + 1]
  /\ last' = "other"
  /\ shellDocument' = doc'
  /\ UNCHANGED <<tempLines, listeners>>
  /\ UNCHANGED connectionInProgress

\* handleCanvasClick with the instrument tool: addInstrument
AddInstrument(type, position) ==
  LET instrument == NewInstrument(type, position, nextId) IN
  /\ connectionInProgress = Null
  /\ used.added + used.connected < MaxCreated
  /\ doc' = addInstrumentDoc(doc, type, position, nextId)
  /\ elements' = addInstrumentToCanvas(elements, instrument)
  /\ ports' = PortElements(instrument.id, position, instrument.connectionPoints) @@ ports
  /\ selectedElement' = selectElement(elements', instrument.id)
  /\ nextId' = nextId + 1 + Len(instrument.connectionPoints)
  /\ used' = [used EXCEPT !.added = @ + 1]
  /\ last' = "other"
  /\ shellDocument' = doc'
  /\ UNCHANGED <<tempLines, listeners>>
  /\ UNCHANGED connectionInProgress

\* the events of lines 601-602
MouseListeners == {"mousemove", "mouseup"}

\* mousedown on a port circle: startConnection with the handler's start point
StartConnection(portId) ==
  /\ portId \in DOMAIN ports
  /\ connectionInProgress = Null
  /\ connectionInProgress' = [startPort |-> portId, startPoint |-> ports[portId].startPoint]
  /\ last' = "other"
  /\ tempLines' = tempLines + 1
  /\ listeners' = MouseListeners
  /\ UNCHANGED <<doc, elements, ports, selectedElement, nextId, used, shellDocument>>

\* the test as it would be without portId !== connectionInProgress.startPort
WillConnectAny(portId) ==
  /\ connectionInProgress # Null
  /\ portId # NoId
  /\ portId \in DOMAIN ports

\* the test of handleMouseUpConnection, lines 638-642, for the target's data-port-id
WillConnect(portId) ==
  /\ connectionInProgress # Null
  /\ portId # NoId
  /\ portId # connectionInProgress.startPort
  /\ portId \in DOMAIN ports

\* mouseup over a port: handleMouseUpConnection calling createConnection
MouseUpConnect(portId) ==
  LET segmentId == nextId
      endPoint == PortElementPosition(elements, ports, portId)
      segment == [id |-> segmentId]
  IN
  /\ WillConnect(portId)
  /\ used.added + used.connected < MaxCreated
  /\ doc' = createConnectionDoc(doc, doc, connectionInProgress.startPort, portId,
                                connectionInProgress.startPoint, endPoint, segmentId)
  /\ elements' = addLineSegmentToCanvas(elements, segment)
  /\ nextId' = nextId + createConnectionIds(doc)
  /\ connectionInProgress' = Null
  /\ used' = [used EXCEPT !.connected = @ + 1]
  /\ last' = "other"
  /\ shellDocument' = doc'
  /\ tempLines' = tempLines - 1
  /\ listeners' = {}
  /\ UNCHANGED <<ports, selectedElement>>

\* mouseup anywhere else (no port, the start port, an id portsRef does not hold)
MouseUpNoConnect(portId) ==
  /\ portId \in DOMAIN ports \cup {NoId, GhostId}
  /\ connectionInProgress # Null
  /\ ~WillConnect(portId)
  /\ connectionInProgress' = Null
  /\ last' = IF portId = connectionInProgress.startPort THEN "mouseUpSame" ELSE "other"
  /\ tempLines' = tempLines - 1
  /\ listeners' = {}
  /\ UNCHANGED <<doc, elements, ports, selectedElement, nextId, used, shellDocument>>

\* Escape: cancelConnection
CancelConnection ==
  /\ connectionInProgress # Null
  /\ connectionInProgress' = Null
  /\ last' = "other"
  /\ tempLines' = tempLines - 1
  /\ listeners' = {}
  /\ UNCHANGED <<doc, elements, ports, selectedElement, nextId, used, shellDocument>>

\* the update*Position function the dragend handler of a group of this type calls
updatePosition(type, prev, id, newPosition) ==
  IF type = "equipment" THEN updateEquipmentPosition(prev, id, newPosition)
  ELSE IF type = "fitting" THEN updateFittingPosition(prev, id, newPosition)
  ELSE updateInstrumentPosition(prev, id, newPosition)

GroupTypes == {"equipment", "fitting", "instrument"}

\* dragend on a group: the group is at box.x/box.y and the document is updated
DragEnd(id, newPosition) ==
  /\ id \in DOMAIN elements
  /\ connectionInProgress = Null
  /\ elements[id].type \in GroupTypes
  /\ doc' = updatePosition(elements[id].type, doc, id, newPosition)
  /\ elements' = [elements EXCEPT ![id].x = newPosition.x, ![id].y = newPosition.y]
  /\ last' = "other"
  /\ shellDocument' = doc'
  /\ UNCHANGED <<tempLines, listeners>>
  /\ UNCHANGED <<ports, selectedElement, connectionInProgress, nextId, used>>

\* an update*Position call with an id that names no entity of the document
UpdateUnknown(type, id, newPosition) ==
  /\ type \in GroupTypes
  /\ id \notin EntityIds(doc)
  /\ doc' = updatePosition(type, doc, id, newPosition)
  /\ last' = "other"
  /\ shellDocument' = doc'
  /\ UNCHANGED <<tempLines, listeners>>
  /\ UNCHANGED <<elements, ports, selectedElement, connectionInProgress, nextId, used>>

\* click on an element, or on the background (elementId = '')
SelectElement(elementId) ==
  /\ elementId \in DOMAIN elements \cup {NoId}
  /\ connectionInProgress = Null
  /\ selectedElement' = selectElement(elements, elementId)
  /\ last' = "other"
  /\ UNCHANGED <<tempLines, listeners>>
  /\ UNCHANGED <<doc, elements, ports, connectionInProgress, nextId, used, shellDocument>>

\* the setDocument updater of the branch deleteSelectedElement takes for a data-type
deleteElement(type, prev, selected) ==
  IF type = "equipment" THEN deleteEquipment(prev, selected)
  ELSE IF type = "fitting" THEN deleteFitting(prev, selected)
  ELSE IF type = "instrument" THEN deleteInstrument(prev, selected)
  ELSE deleteLineSegment(prev, selected)

\* the segments whose canvas lines the branch removes
deletedSegments(type, prev, selected) ==
  IF type = "equipment" THEN EquipmentConnected(prev, selected)
  ELSE IF type = "fitting" THEN FittingConnected(prev, selected)
  ELSE IF type = "instrument" THEN InstrumentConnected(prev, selected)
  ELSE {}

\* Delete key with a selection: deleteSelectedElement
DeleteSelected ==
  /\ selectedElement # NoId
  /\ selectedElement \in DOMAIN elements
  /\ LET type == elements[selectedElement].type IN
     /\ doc' = deleteElement(type, doc, selectedElement)
     /\ elements' = RemoveKeys(elements,
                               {selectedElement} \cup deletedSegments(type, doc, selectedElement))
     /\ ports' = RemoveKeys(ports, OwnedPortIds(doc, selectedElement))
     /\ last' = "other"
  /\ selectedElement' = NoId
  /\ shellDocument' = doc'
  /\ UNCHANGED <<tempLines, listeners>>
  /\ UNCHANGED <<connectionInProgress, nextId, used>>

Next ==
  \/ \E type \in EquipmentInputs, position \in Positions : AddEquipment(type, position)
  \/ \E type \in FittingInputs, position \in Positions : AddFitting(type, position)
  \/ \E type \in InstrumentInputs, position \in Positions : AddInstrument(type, position)
  \/ \E portId \in DOMAIN ports : StartConnection(portId)
  \/ \E portId \in DOMAIN ports : MouseUpConnect(portId)
  \/ \E portId \in DOMAIN ports \cup {NoId, GhostId} : MouseUpNoConnect(portId)
  \/ CancelConnection
  \/ \E id \in DOMAIN elements, newPosition \in Positions : DragEnd(id, newPosition)
  \/ \E type \in GroupTypes, id \in {GhostId}, newPosition \in Positions :
       UpdateUnknown(type, id, newPosition)
  \/ \E elementId \in DOMAIN elements \cup {NoId} : SelectElement(elementId)
  \/ DeleteSelected

Spec == Init /\ [][Next]_vars

\* -------------------------------------------------------- xml: the tree
\* The XML text is represented by its elements in document order, each with its
\* tag, its text (a sequence of pieces; <<>> for no text) and its depth below the
\* first one: an element is the sequence that starts with its own node and goes on
\* with its descendants.  An optional field of the data model is the set of its
\* values: {} when absent or undefined.
Opt(r, f) == IF f \in DOMAIN r THEN {r[f]} ELSE {}

The(opt) == CHOOSE v \in opt : TRUE

WithField(r, f, opt) == IF opt = {} THEN r ELSE (f :> The(opt)) @@ r

ForEach(es, F(_, _)) == [ i \in 1..Len(es) |-> F(es[i], i) ]

\* xmlDoc.createElementNS followed by appendChild of the children
XmlElement(tag, children) ==
  << [tag |-> tag, text |-> <<>>, depth |-> 0] >>
  \o MapSeq(FlattenSeq(children), LAMBDA n : [n EXCEPT !.depth = @ + 1])

\* addElementWithText, lines 338-343, for a string and for an id
addElementWithText(tag, text) ==
  << [tag |-> tag, text |-> IF text = "" THEN <<>> ELSE <<text>>, depth |-> 0] >>

addElementWithId(tag, id) == << [tag |-> tag, text |-> <<id>>, depth |-> 0] >>

\* `if (x.field) addElementWithText(...)`: written when present and not empty
OptionalText(tag, opt) ==
  IF opt = {} \/ opt = {""} THEN <<>> ELSE << addElementWithText(tag, The(opt)) >>

OptionalId(tag, opt) ==
  IF opt = {} \/ opt = {NoId} THEN <<>> ELSE << addElementWithId(tag, The(opt)) >>

\* the element that starts at position k of an element
Subtree(element, k) ==
  LET after == { j \in (k + 1)..Len(element) : element[j].depth <= element[k].depth }
      end == IF after = {} THEN Len(element)
             ELSE (CHOOSE j \in after : \A i \in after : j <= i) - 1
  IN SubSeq(element, k, end)

\* the positions as they would be if the list were read from its end
TagIndexesBackwards(parent, tag) ==
  LET found == SelectSeq([ i \in 1..Len(parent) |-> i ],
                         LAMBDA i : i > 1 /\ parent[i].tag = tag)
  IN [ i \in 1..Len(found) |-> found[Len(found) + 1 - i] ]

\* the positions of the descendants with the tag, in document order
TagIndexes(parent, tag) ==
  SelectSeq([ i \in 1..Len(parent) |-> i ], LAMBDA i : i > 1 /\ parent[i].tag = tag)

\* getElementsByTagNameNS: every descendant with the tag, in document order
getElementsByTagNameNS(parent, tag) ==
  MapSeq(TagIndexes(parent, tag), LAMBDA k : Subtree(parent, k))

\* getElementsByTagNameNS(...)[0] as a position (0: none)
FirstIndex(parent, tag) ==
  IF \E i \in 2..Len(parent) : parent[i].tag = tag
  THEN CHOOSE i \in 2..Len(parent) :
         parent[i].tag = tag /\ \A j \in 2..(i - 1) : parent[j].tag # tag
  ELSE 0

\* getElementTextContent, lines 348-354: elements[0].textContent || undefined
\* (every tag read this way is written with text only)
getElementTextContent(parent, tag) ==
  LET k == FirstIndex(parent, tag) IN
  IF k # 0 /\ parent[k].text # <<>> THEN { parent[k].text[1] } ELSE {}

\* `${n}` for an integer: its decimal digits, "-" first when negative
DigitChars == << "0", "1", "2", "3", "4", "5", "6", "7", "8", "9" >>

RECURSIVE Digits(_)
Digits(n) ==
  IF n < 10 THEN << DigitChars[n + 1] >>
  ELSE Digits(n \div 10) \o << DigitChars[(n % 10) + 1] >>

\* the formatting as it would be if the sign were dropped
NumberToStringUnsigned(n) == Digits(IF n < 0 THEN 0 - n ELSE n)

NumberToString(n) == IF n < 0 THEN << "-" >> \o Digits(0 - n) ELSE Digits(n)

\* parseFloat on such a string
RECURSIVE ParseDigits(_)
ParseDigits(cs) ==
  IF cs = <<>> THEN 0
  ELSE 10 * ParseDigits(SubSeq(cs, 1, Len(cs) - 1))
       + (CHOOSE d \in 0..9 : DigitChars[d + 1] = cs[Len(cs)])

parseFloat(cs) == IF Head(cs) = "-" THEN 0 - ParseDigits(Tail(cs)) ELSE ParseDigits(cs)

\* text.trim().split(/\s+/)
RECURSIVE SplitSpaces(_)
SplitSpaces(cs) ==
  IF cs = <<>> THEN <<>>
  ELSE LET k == FindIndex(cs, LAMBDA c : c = " ") IN
       IF k = 0 THEN << cs >>
       ELSE (IF k = 1 THEN <<>> ELSE << SubSeq(cs, 1, k - 1) >>)
            \o SplitSpaces(SubSeq(cs, k + 1, Len(cs)))

\* the gml:Point / gml:pos pair holding `${x} ${y}`
PointElement(tag, point) ==
  XmlElement(tag,
    << XmlElement("gml:Point",
         << << [ tag |-> "gml:pos",
                 text |-> NumberToString(point.x) \o << " " >> \o NumberToString(point.y),
                 depth |-> 0 ] >> >>) >>)

\* the reading of a gml:pos under the first element with the tag (lines 446-466,
\* 950-973): {} when the element, its pos or two coordinates are missing
parsePoint(element, tag) ==
  LET k == FirstIndex(element, tag) IN
  IF k = 0 THEN {}
  ELSE LET holder == Subtree(element, k)
           p == FirstIndex(holder, "gml:pos")
       IN IF p = 0 \/ holder[p].text = <<>> THEN {}
          ELSE LET coords == SplitSpaces(holder[p].text) IN
               IF Len(coords) >= 2
               THEN { Pt(parseFloat(coords[1]), parseFloat(coords[2])) }
               ELSE {}

\* ------------------------------------------------------ xml: serialization
\* A property value is a string, a number or a boolean: the record of its typeof
\* and its value, a string being the sequence of its characters.
StringValue(cs) == [typeof |-> "string", value |-> cs]

NumberValue(n) == [typeof |-> "number", value |-> n]

BooleanValue(b) == [typeof |-> "boolean", value |-> b]

\* the text written into Value, lines 365-372
PropertyValueText(value) ==
  IF value.typeof = "string" THEN value.value
  ELSE IF value.typeof = "number" THEN NumberToString(value.value)
  ELSE IF value.value THEN << "t", "r", "u", "e" >> ELSE << "f", "a", "l", "s", "e" >>

\* lines 359-384
appendPropertyElement(property) ==
  XmlElement("Property",
    << addElementWithText("Name", property.name),
       << [tag |-> "Value", text |-> PropertyValueText(property.value), depth |-> 0] >> >>
    \o OptionalText("Unit", Opt(property, "unit"))
    \o OptionalText("Source", Opt(property, "source")))

appendProperties(e) ==
  IF Opt(e, "properties") = {} \/ Len(e.properties) = 0 THEN <<>>
  ELSE << XmlElement("Properties", MapSeq(e.properties, appendPropertyElement)) >>

appendPositionElement(position) == PointElement("Position", position)

appendOptionalPosition(e) ==
  IF Opt(e, "position") = {} THEN <<>> ELSE << appendPositionElement(e.position) >>

\* lines 470-492
appendCommonAttributes(e) ==
  << addElementWithId("Id", e.id) >>
  \o OptionalText("Name", Opt(e, "name"))
  \o OptionalText("Description", Opt(e, "description"))
  \o OptionalText("Tag", Opt(e, "tag"))
  \o appendProperties(e)

\* a collection element, written only when the array is not empty
Collection(tag, items, Append1(_)) ==
  IF Len(items) = 0 THEN <<>> ELSE << XmlElement(tag, MapSeq(items, Append1)) >>

appendNozzleElement(nozzle) ==
  XmlElement("Nozzle",
    appendCommonAttributes(nozzle) \o << appendPositionElement(nozzle.position) >>)

appendEquipmentElement(equipment) ==
  XmlElement("Equipment",
    appendCommonAttributes(equipment)
    \o << addElementWithText("EquipmentType", equipment.type) >>
    \o appendOptionalPosition(equipment)
    \o Collection("Nozzles", equipment.nozzles, appendNozzleElement))

appendPipingLineElement(line) ==
  XmlElement("PipingLine",
    appendCommonAttributes(line)
    \o Collection("SegmentReferences", line.segments,
                  LAMBDA segmentId : addElementWithId("SegmentReference", segmentId)))

appendLineSegmentElement(segment) ==
  XmlElement("LineSegment",
    appendCommonAttributes(segment)
    \o << addElementWithId("LineId", segment.lineId),
          PointElement("StartPoint", segment.startPoint),
          PointElement("EndPoint", segment.endPoint) >>
    \o OptionalId("StartConnectedTo", Opt(segment, "startConnectedTo"))
    \o OptionalId("EndConnectedTo", Opt(segment, "endConnectedTo")))

\* the ConnectionPoint of a fitting, lines 809-829
appendFittingPoint(point) ==
  XmlElement("ConnectionPoint",
    << addElementWithId("Id", point.id) >>
    \o OptionalText("Name", Opt(point, "name"))
    \o << appendPositionElement(point.position) >>)

appendPipingFittingElement(fitting) ==
  XmlElement("PipingFitting",
    appendCommonAttributes(fitting)
    \o << addElementWithText("FittingType", fitting.fittingType) >>
    \o appendOptionalPosition(fitting)
    \o Collection("ConnectionPoints", fitting.connectionPoints, appendFittingPoint))

appendPipingNetworkElement(network) ==
  XmlElement("PipingNetwork",
    appendCommonAttributes(network)
    \o Collection("PipingLines", network.lines, appendPipingLineElement)
    \o Collection("PipingFittings", network.fittings, appendPipingFittingElement)
    \o Collection("LineSegments", network.lineSegments, appendLineSegmentElement))

\* the ConnectionPoint of an instrument, lines 1088-1104
appendInstrumentPoint(point) ==
  XmlElement("ConnectionPoint",
    << addElementWithId("Id", point.id), appendPositionElement(point.position) >>)

appendSignalLineElement(line) ==
  XmlElement("SignalLine",
    appendCommonAttributes(line)
    \o << PointElement("StartPoint", line.startPoint),
          PointElement("EndPoint", line.endPoint),
          addElementWithId("StartConnectedTo", line.startConnectedTo),
          addElementWithId("EndConnectedTo", line.endConnectedTo) >>)

appendInstrumentElement(instrument) ==
  XmlElement("Instrument",
    appendCommonAttributes(instrument)
    \o << addElementWithText("InstrumentType", instrument.instrumentType) >>
    \o appendOptionalPosition(instrument)
    \o Collection("ConnectionPoints", instrument.connectionPoints, appendInstrumentPoint)
    \o Collection("SignalLines", instrument.signalLines, appendSignalLineElement))

appendProcessConnectionElement(connection) ==
  XmlElement("ProcessConnection",
    appendCommonAttributes(connection)
    \o << addElementWithId("SourceId", connection.sourceId),
          addElementWithId("TargetId", connection.targetId),
          addElementWithText("ConnectionType", connection.connectionType) >>)

\* lines 66-79: CreationInfo is appended whatever it holds.  A Date is
\* represented by its toISOString() text
appendCreationInfo(document) ==
  XmlElement("CreationInfo",
    OptionalText("Author", Opt(document, "createdBy"))
    \o OptionalText("CreationDate", Opt(document, "createdDate"))
    \o OptionalText("LastModifiedBy", Opt(document, "modifiedBy"))
    \o OptionalText("LastModifiedDate", Opt(document, "modifiedDate")))

\* lines 38-131: the root carries Name (document.name || ''), the optional
\* Description, CreationInfo, Properties and the four collections; no Id
serializeToDexpiXml(document) ==
  XmlElement("PlantModel",
    << addElementWithText("Name",
         IF Opt(document, "name") = {} THEN "" ELSE document.name) >>
    \o OptionalText("Description", Opt(document, "description"))
    \o << appendCreationInfo(document) >>
    \o appendProperties(document)
    \o Collection("EquipmentCollection", document.equipment, appendEquipmentElement)
    \o Collection("PipingNetworkCollection", document.pipingNetworks,
                  appendPipingNetworkElement)
    \o Collection("InstrumentCollection", document.instruments, appendInstrumentElement)
    \o Collection("ProcessConnectionCollection", document.processConnections,
                  appendProcessConnectionElement))

\* ------------------------------------------------------------ xml: parsing
\* `getElementTextContent(element, 'dexpi:Id') || createDexpiId()`
IdOrFresh(element, fresh) ==
  LET id == getElementTextContent(element, "Id") IN
  IF id = {} THEN fresh ELSE The(id)

\* the first element with the tag under the parent, then the elements with the
\* item tag under it (the pattern of lines 181-213, 851-876, 610-616)
CollectionItems(parent, tag, itemTag) ==
  LET k == FirstIndex(parent, tag) IN
  IF k = 0 THEN <<>> ELSE getElementsByTagNameNS(Subtree(parent, k), itemTag)

\* String.prototype.toLowerCase on the letters A-Z
UpperChars ==
  << "A", "B", "C", "D", "E", "F", "G", "H", "I", "J", "K", "L", "M",
     "N", "O", "P", "Q", "R", "S", "T", "U", "V", "W", "X", "Y", "Z" >>

LowerChars ==
  << "a", "b", "c", "d", "e", "f", "g", "h", "i", "j", "k", "l", "m",
     "n", "o", "p", "q", "r", "s", "t", "u", "v", "w", "x", "y", "z" >>

toLowerCase(cs) ==
  MapSeq(cs, LAMBDA c :
    IF \E i \in 1..26 : UpperChars[i] = c
    THEN LowerChars[CHOOSE i \in 1..26 : UpperChars[i] = c] ELSE c)

\* the string without its leading and trailing spaces
RECURSIVE Trim(_)
Trim(cs) ==
  IF cs = <<>> THEN cs
  ELSE IF Head(cs) = " " THEN Trim(Tail(cs))
  ELSE IF cs[Len(cs)] = " " THEN Trim(SubSeq(cs, 1, Len(cs) - 1))
  ELSE cs

IsDigits(cs) == cs # <<>> /\ \A i \in 1..Len(cs) : cs[i] \in Range(DigitChars)

\* Number(string) on strings of letters, spaces, signs and decimal digits: {} is
\* NaN.  Spaces around are skipped and the empty string is 0.
Number(cs) ==
  LET t == Trim(cs) IN
  IF t = <<>> THEN { 0 }
  ELSE IF IsDigits(t) THEN { ParseDigits(t) }
  ELSE IF Head(t) = "-" /\ IsDigits(Tail(t)) THEN { 0 - ParseDigits(Tail(t)) }
  ELSE IF Head(t) = "+" /\ IsDigits(Tail(t)) THEN { ParseDigits(Tail(t)) }
  ELSE {}

\* the whole text of the first descendant with the tag: textContent || undefined
getElementCharacters(parent, tag) ==
  LET k == FirstIndex(parent, tag) IN
  IF k # 0 /\ parent[k].text # <<>> THEN { parent[k].text } ELSE {}

\* lines 406-414
parsePropertyValue(valueStr) ==
  IF toLowerCase(valueStr) = << "t", "r", "u", "e" >> THEN BooleanValue(TRUE)
  ELSE IF toLowerCase(valueStr) = << "f", "a", "l", "s", "e" >> THEN BooleanValue(FALSE)
  ELSE IF Number(valueStr) # {} THEN NumberValue(The(Number(valueStr)))
  ELSE StringValue(valueStr)

\* lines 389-426
parseProperties(element) ==
  LET els == CollectionItems(element, "Properties", "Property")
      named == SelectSeq(els, LAMBDA p : getElementTextContent(p, "Name") # {}
                                         /\ getElementCharacters(p, "Value") # {})
      properties == MapSeq(named, LAMBDA p :
                      WithField(WithField(
                        [ name |-> The(getElementTextContent(p, "Name")),
                          value |-> parsePropertyValue(The(getElementCharacters(p, "Value"))) ],
                        "unit", getElementTextContent(p, "Unit")),
                        "source", getElementTextContent(p, "Source")))
  IN IF Len(properties) > 0 THEN { properties } ELSE {}

parsePosition(element) == parsePoint(element, "Position")

\* name, description, tag and properties as every parse function reads them
WithCommon(r, element) ==
  WithField(WithField(WithField(WithField(r,
    "name", getElementTextContent(element, "Name")),
    "description", getElementTextContent(element, "Description")),
    "tag", getElementTextContent(element, "Tag")),
    "properties", parseProperties(element))

PointOrOrigin(opt) == IF opt = {} THEN Pt(0, 0) ELSE The(opt)

\* fresh: the ids createDexpiId would give, drawn apart for the element and its parts
parseNozzle(element, equipmentId, fresh) ==
  WithCommon([ id |-> IdOrFresh(element, fresh), equipmentId |-> equipmentId,
               position |-> PointOrOrigin(parsePosition(element)) ], element)

parseEquipment(element, fresh) ==
  LET id == IdOrFresh(element, fresh) IN
    WithField(
      WithCommon([ id |-> id,
                   type |-> The(getElementTextContent(element, "EquipmentType")),
                   nozzles |-> ForEach(CollectionItems(element, "Nozzles", "Nozzle"),
                                 LAMBDA el, i : parseNozzle(el, id, fresh + i)) ],
                 element),
      "position", parsePosition(element))

parsePipingLine(element, fresh) ==
  LET refs == CollectionItems(element, "SegmentReferences", "SegmentReference")
      kept == SelectSeq(refs, LAMBDA r : r[1].text # <<>>)
  IN WithCommon([ id |-> IdOrFresh(element, fresh),
                  segments |-> MapSeq(kept, LAMBDA r : r[1].text[1]) ], element)

parseLineSegment(element, fresh) ==
  LET lineId == getElementTextContent(element, "LineId") IN
  WithField(WithField(
    WithCommon([ id |-> IdOrFresh(element, fresh),
                 lineId |-> IF lineId = {} THEN NoId ELSE The(lineId),
                 startPoint |-> PointOrOrigin(parsePoint(element, "StartPoint")),
                 endPoint |-> PointOrOrigin(parsePoint(element, "EndPoint")) ], element),
    "startConnectedTo", getElementTextContent(element, "StartConnectedTo")),
    "endConnectedTo", getElementTextContent(element, "EndConnectedTo"))

\* the ConnectionPoint of a fitting, lines 1012-1030
parseFittingPoint(pointElement, fittingId, fresh) ==
  WithField([ id |-> IdOrFresh(pointElement, fresh), fittingId |-> fittingId,
              position |-> PointOrOrigin(parsePosition(pointElement)) ],
            "name", getElementTextContent(pointElement, "Name"))

parsePipingFitting(element, fresh) ==
  LET id == IdOrFresh(element, fresh) IN
    WithField(
      WithCommon([ id |-> id,
                   fittingType |-> The(getElementTextContent(element, "FittingType")),
                   connectionPoints |->
                     ForEach(CollectionItems(element, "ConnectionPoints", "ConnectionPoint"),
                             LAMBDA el, i : parseFittingPoint(el, id, fresh + i)) ],
                 element),
      "position", parsePosition(element))

parsePipingNetwork(element, fresh) ==
  WithCommon(
    [ id |-> IdOrFresh(element, fresh),
      lines |-> ForEach(CollectionItems(element, "PipingLines", "PipingLine"),
                        LAMBDA el, i : parsePipingLine(el, fresh + i)),
      fittings |-> ForEach(CollectionItems(element, "PipingFittings", "PipingFitting"),
                           LAMBDA el, i : parsePipingFitting(el, fresh + 10 * i + 100)),
      lineSegments |-> ForEach(CollectionItems(element, "LineSegments", "LineSegment"),
                               LAMBDA el, i : parseLineSegment(el, fresh + i + 50)) ],
    element)

parseSignalLine(element, fresh) ==
  LET startConnectedTo == getElementTextContent(element, "StartConnectedTo")
      endConnectedTo == getElementTextContent(element, "EndConnectedTo")
  IN WithCommon(
       [ id |-> IdOrFresh(element, fresh),
         startPoint |-> PointOrOrigin(parsePoint(element, "StartPoint")),
         endPoint |-> PointOrOrigin(parsePoint(element, "EndPoint")),
         startConnectedTo |-> IF startConnectedTo = {} THEN NoId ELSE The(startConnectedTo),
         endConnectedTo |-> IF endConnectedTo = {} THEN NoId ELSE The(endConnectedTo) ],
       element)

\* the ConnectionPoint of an instrument, lines 1182-1197
parseInstrumentPoint(pointElement, instrumentId, fresh) ==
  [ id |-> IdOrFresh(pointElement, fresh), instrumentId |-> instrumentId,
    position |-> PointOrOrigin(parsePosition(pointElement)) ]

parseInstrument(element, fresh) ==
  LET id == IdOrFresh(element, fresh) IN
    WithField(
      WithCommon([ id |-> id,
                   instrumentType |-> The(getElementTextContent(element, "InstrumentType")),
                   connectionPoints |->
                     ForEach(CollectionItems(element, "ConnectionPoints", "ConnectionPoint"),
                             LAMBDA el, i : parseInstrumentPoint(el, id, fresh + i)),
                   signalLines |->
                     ForEach(CollectionItems(element, "SignalLines", "SignalLine"),
                             LAMBDA el, i : parseSignalLine(el, fresh + 5 + i)) ],
                 element),
      "position", parsePosition(element))

parseProcessConnection(element, fresh) ==
  LET sourceId == getElementTextContent(element, "SourceId")
      targetId == getElementTextContent(element, "TargetId")
  IN WithField(
       WithCommon([ id |-> IdOrFresh(element, fresh),
                    sourceId |-> IF sourceId = {} THEN NoId ELSE The(sourceId),
                    targetId |-> IF targetId = {} THEN NoId ELSE The(targetId) ], element),
       "connectionType", getElementTextContent(element, "ConnectionType"))

\* lines 163-177: the four fields read under the first CreationInfo element
parseCreationInfo(document, xmlDoc) ==
  LET k == FirstIndex(xmlDoc, "CreationInfo") IN
  IF k = 0 THEN document
  ELSE LET creationInfoElement == Subtree(xmlDoc, k) IN
       WithField(WithField(WithField(WithField(document,
         "createdBy", getElementTextContent(creationInfoElement, "Author")),
         "createdDate", getElementTextContent(creationInfoElement, "CreationDate")),
         "modifiedBy", getElementTextContent(creationInfoElement, "LastModifiedBy")),
         "modifiedDate", getElementTextContent(creationInfoElement, "LastModifiedDate"))

\* lines 138-222; xmlDoc is the root element, fresh the first id createDexpiId
\* would give
parseFromDexpiXml(xmlDoc, fresh) ==
  LET name == getElementTextContent(xmlDoc, "Name") IN
  parseCreationInfo(WithField(WithField(
    [ id |-> IdOrFresh(xmlDoc, fresh),
      name |-> IF name = {} THEN "" ELSE The(name),
      equipment |->
        ForEach(CollectionItems(xmlDoc, "EquipmentCollection", "Equipment"),
                LAMBDA el, i : parseEquipment(el, fresh + 1000 * i)),
      pipingNetworks |->
        ForEach(CollectionItems(xmlDoc, "PipingNetworkCollection", "PipingNetwork"),
                LAMBDA el, i : parsePipingNetwork(el, fresh + 1000 * i + 200)),
      instruments |->
        ForEach(CollectionItems(xmlDoc, "InstrumentCollection", "Instrument"),
                LAMBDA el, i : parseInstrument(el, fresh + 1000 * i + 500)),
      processConnections |->
        ForEach(CollectionItems(xmlDoc, "ProcessConnectionCollection", "ProcessConnection"),
                LAMBDA el, i : parseProcessConnection(el, fresh + 1000 * i + 700)) ],
    "description", getElementTextContent(xmlDoc, "Description")),
    "properties", parseProperties(xmlDoc)), xmlDoc)

\* new DOMParser().parseFromString of @xmldom/xmldom (line 140) for a text that is
\* not well-formed.  The library is not among the sources; it reports an error
\* either by throwing (fatalError) or by logging it and going on with the elements
\* it could read, and it never builds a parsererror element.  recovered is the
\* tree of what it could read.
DOMParserResults(recovered) ==
  { [thrown |-> TRUE, message |-> "ParseError"],
    [thrown |-> FALSE, xmlDoc |-> recovered] }

\* lines 139-147 and 218-221 on what the parser gave
parseResult(result, fresh) ==
  IF result.thrown
  THEN [ outcome |-> "error", message |-> << "Failed to parse DEXPI XML: ", result.message >> ]
  ELSE IF Len(TagIndexes(result.xmlDoc, "parsererror")) > 0
  THEN [ outcome |-> "error",
         message |-> << "Failed to parse DEXPI XML: ", "XML parsing error: ",
                        result.xmlDoc[FirstIndex(result.xmlDoc, "parsererror")].text >> ]
  ELSE [ outcome |-> "document", document |-> parseFromDexpiXml(result.xmlDoc, fresh) ]

\* decode(encode(document)), the ids createDexpiId gives being above the document's
RoundTrip(document) == parseFromDexpiXml(serializeToDexpiXml(document), 10000)

\* ------------------------------------------------------------ svg: export
\* what convertToSvg appends, as the kind and the id of each element drawn
Drawn(kind, items) == MapSeq(items, LAMBDA item : [kind |-> kind, id |-> item.id])

\* lines 256-286: the group of a network, its segments appended before its fittings
NetworkGroup(network) ==
  [ kind |-> "network", id |-> network.id,
    children |-> Drawn("segment", network.lineSegments)
                 \o Drawn("fitting", network.fittings) ]

SignalLinesOf(instrument) ==
  IF Opt(instrument, "signalLines") = {} THEN <<>> ELSE instrument.signalLines

\* the main layer as it would be if the equipment were drawn before the networks
mainLayerEquipmentFirst(document) ==
  Drawn("equipment", document.equipment)
  \o MapSeq(document.pipingNetworks, NetworkGroup)
  \o Drawn("instrument", document.instruments)
  \o FlattenSeq(MapSeq(document.instruments,
                        LAMBDA i : Drawn("signal", SignalLinesOf(i))))

\* convertToSvg, lines 255-323: the children of the main layer in the order of
\* their appendChild
mainLayer(document) ==
  MapSeq(document.pipingNetworks, NetworkGroup)
  \o Drawn("equipment", document.equipment)
  \o Drawn("instrument", document.instruments)
  \o FlattenSeq(MapSeq(document.instruments,
                        LAMBDA i : Drawn("signal", SignalLinesOf(i))))

\* the width and height of the templates of SYMBOL_PATHS, lines 24-70
SYMBOL_SIZES ==
  [ VESSEL |-> [width |-> 60, height |-> 100],
    PUMP |-> [width |-> 50, height |-> 50],
    HEAT_EXCHANGER |-> [width |-> 80, height |-> 40],
    COLUMN |-> [width |-> 50, height |-> 150] ]

\* the size of symbolData = SYMBOL_PATHS[type] || SYMBOL_PATHS[EquipmentType.VESSEL]
EquipmentSymbolSize(type) ==
  IF type \in DOMAIN SYMBOL_SIZES THEN SYMBOL_SIZES[type] ELSE SYMBOL_SIZES["VESSEL"]

\* renderEquipmentToSvg, the switch of lines 1347-1416: the width and height of the
\* outline drawn for the type
renderEquipmentToSvg(type) ==
  CASE type \in { "VESSEL", "TANK" } -> [width |-> 60, height |-> 100]
    [] type = "COLUMN" -> [width |-> 50, height |-> 150]
    [] type = "PUMP" -> [width |-> 50, height |-> 50]
    [] type = "HEAT_EXCHANGER" -> [width |-> 80, height |-> 40]
    [] OTHER -> [width |-> 60, height |-> 60]

\* ------------------------------------------- the equipment palette on its own
\* enum EquipmentType
EquipmentTypes ==
  { "VESSEL", "COLUMN", "TANK", "PUMP", "COMPRESSOR", "HEAT_EXCHANGER", "MIXER",
    "REACTOR", "FILTER", "FURNACE", "PACKAGE_UNIT", "OTHER" }

InitEmpty ==
  /\ doc = createEmptyDocument
  /\ elements = loadDocumentElements(doc)
  /\ ports = loadDocumentPorts(doc)
  /\ selectedElement = NoId
  /\ connectionInProgress = Null
  /\ nextId = MaxIdOf(doc) + 1
  /\ used = [added |-> 0, connected |-> 0]
  /\ last = "init"
  /\ shellDocument = doc
  /\ tempLines = 0
  /\ listeners = {}

\* clicks with the equipment tool, for every type the palette can hold
NextPalette ==
  \E type \in EquipmentTypes, position \in Positions : AddEquipment(type, position)

SpecPalette == InitEmpty /\ [][NextPalette]_vars

\* the editor started without initialDocument: every document it holds is built
\* by its operations from the empty one
SpecBuilt == InitEmpty /\ [][Next]_vars

\* ------------------------------------------------------ the read-only Canvas
\* The Canvas mounted with readOnly and an initialDocument.  The other
\* specifications mount it with the default readOnly = false (line 156), under
\* which every guard below is passed.
readOnly == TRUE

ElementHandlers == {"mousedown", "dragend", "click"}

\* the handlers as they would be if add*ToCanvas attached them in every mode
attachedHandlersAlways(mode) == ElementHandlers

\* add*ToCanvas: the handlers put on the port circles, the groups and the lines
\* (if (!readOnly), lines 353, 373, 430, 450, 511, 531, 568)
attachedHandlers(mode) == IF mode THEN {} ELSE ElementHandlers

\* the documents a Canvas is handed: the initial documents with up to two
\* entities added and one connection made between two of their ports
WithEntity(d) ==
  LET id == MaxIdOf(d) + 1 IN
  { addEquipmentDoc(d, type, position, id) :
      type \in EquipmentInputs, position \in Positions }
  \cup { addFittingDoc(d, d, NewFitting(type, position, id),
                       id + 1 + Len(FittingSymbol(type))) :
      type \in FittingInputs, position \in Positions }
  \cup { addInstrumentDoc(d, type, position, id) :
      type \in InstrumentInputs, position \in Positions }

WithConnection(d) ==
  LET first == CHOOSE a \in DocPortIds(d) : \A b \in DocPortIds(d) : a <= b IN
  { createConnectionDoc(d, d, first, b, PortPosition(d, first), PortPosition(d, b),
                        MaxIdOf(d) + 1) : b \in DocPortIds(d) \ {first} }

ReadOnlyDocuments ==
  LET one == UNION { WithEntity(d) : d \in InitialDocuments }
      two == UNION { WithEntity(d) : d \in one }
  IN InitialDocuments \cup one \cup two \cup UNION { WithConnection(d) : d \in one }

InitReadOnly ==
  /\ doc \in ReadOnlyDocuments
  /\ elements = loadDocumentElements(doc)
  /\ ports = loadDocumentPorts(doc)
  /\ selectedElement = NoId
  /\ connectionInProgress = Null
  /\ nextId = MaxIdOf(doc) + 1
  /\ used = [added |-> Cardinality(EntityIds(doc)), connected |-> Len(AllSegments(doc))]
  /\ last = "init"
  /\ shellDocument = doc
  /\ tempLines = 0
  /\ listeners = {}

\* an event no handler acts on
Ignored ==
  /\ last' = "other"
  /\ UNCHANGED <<tempLines, listeners>>
  /\ UNCHANGED <<doc, elements, ports, selectedElement, connectionInProgress, nextId, used,
                 shellDocument>>

\* click on the background, lines 1478-1502: selectElement(''), then the add
\* function of the tool, which returns at once (lines 1307, 1353, 1433)
ClickCanvas(tool) ==
  IF tool = "select" \/ readOnly
  THEN SelectElement(NoId)
  ELSE \/ \E type \in EquipmentInputs, position \in Positions : AddEquipment(type, position)
       \/ \E type \in FittingInputs, position \in Positions : AddFitting(type, position)
       \/ \E type \in InstrumentInputs, position \in Positions : AddInstrument(type, position)

\* click on a group or a line: its click handler, if it has one
ClickElement(elementId) ==
  IF "click" \in attachedHandlers(readOnly) THEN SelectElement(elementId) ELSE Ignored

\* a group dragged and dropped: its dragend handler, if it has one
DragElement(id, newPosition) ==
  IF "dragend" \in attachedHandlers(readOnly) THEN DragEnd(id, newPosition) ELSE Ignored

\* mousedown on a port circle: its handler, if it has one, calls startConnection,
\* which returns at once when readOnly (line 581)
PressPort(portId) ==
  IF "mousedown" \in attachedHandlers(readOnly) /\ ~readOnly
  THEN StartConnection(portId)
  ELSE Ignored

\* mouseup: handleMouseUpConnection is a listener only while a gesture runs
ReleaseMouse(portId) ==
  IF connectionInProgress # Null
  THEN MouseUpConnect(portId) \/ MouseUpNoConnect(portId)
  ELSE Ignored

\* handleKeyDown, lines 260-274
KeyDown(key) ==
  IF key = "Delete" /\ selectedElement # NoId THEN DeleteSelected
  ELSE IF key = "Escape" /\ connectionInProgress # Null THEN CancelConnection
  ELSE Ignored

Tools == {"select", "equipment", "fitting", "instrument"}

Keys == {"Delete", "Escape", "s", "e"}

NextReadOnly ==
  \/ \E tool \in Tools : ClickCanvas(tool)
  \/ \E elementId \in DOMAIN elements : ClickElement(elementId)
  \/ \E id \in DOMAIN elements, newPosition \in Positions : DragElement(id, newPosition)
  \/ \E portId \in DOMAIN ports : PressPort(portId)
  \/ \E portId \in DOMAIN ports \cup {NoId} : ReleaseMouse(portId)
  \/ \E key \in Keys : KeyDown(key)

SpecReadOnly == InitReadOnly /\ [][NextReadOnly]_vars

\* ------------------------------------------------------ the gesture as written
\* The listeners of the gesture and of the keyboard as the text of Canvas.tsx
\* has them, without the reading of the actions of Next.
MaxTempLines == 2

\* document.addEventListener, lines 601-602: inside the component `document` is
\* the state of line 167, a DexpiDocument, which has no addEventListener; the
\* call throws and registers nothing
addEventListeners(registered, events) == registered

\* startConnection, lines 580-603: the dashed line is drawn and
\* setConnectionInProgress is called before line 601 throws
StartConnectionAsWritten(portId) ==
  /\ portId \in DOMAIN ports
  /\ tempLines < MaxTempLines
  /\ tempLines' = tempLines + 1
  /\ connectionInProgress' = [startPort |-> portId, startPoint |-> ports[portId].startPoint]
  /\ listeners' = addEventListeners(listeners, MouseListeners)
  /\ last' = "other"
  /\ UNCHANGED <<doc, elements, ports, selectedElement, nextId, used, shellDocument>>

\* an event that changes nothing; last keeps its name
Unhandled(event) ==
  /\ last' = event
  /\ UNCHANGED <<doc, elements, ports, selectedElement, connectionInProgress, nextId, used,
                 shellDocument, tempLines, listeners>>

\* mouseup on the page, over a port or not: no handler of the gesture is registered
MouseUpAsWritten(portId) ==
  /\ "mouseup" \notin listeners
  /\ Unhandled("mouseup")

\* the branch handleKeyDown takes, lines 260-274, for the selectedElement and the
\* connectionInProgress its closure holds
handleKeyDown(key, selected, inProgress) ==
  IF key = "Delete" /\ selected # NoId THEN "deleteSelectedElement"
  ELSE IF key = "Escape" /\ inProgress # Null THEN "cancelConnection"
  ELSE "none"

\* keydown: the listener is the handleKeyDown of the first render, registered by
\* the mount effect (lines 216, 224: no dependencies), in which selectedElement
\* and connectionInProgress are null
KeyDownAsWritten(key) ==
  LET branch == handleKeyDown(key, NoId, Null) IN
  IF branch = "deleteSelectedElement" THEN DeleteSelected
  ELSE IF branch = "cancelConnection" THEN CancelConnection
  ELSE Unhandled(key)

NextGesture ==
  \/ \E type \in EquipmentInputs, position \in Positions : AddEquipment(type, position)
  \/ \E type \in FittingInputs, position \in Positions : AddFitting(type, position)
  \/ \E id \in DOMAIN elements, newPosition \in Positions : DragEnd(id, newPosition)
  \/ \E portId \in DOMAIN ports : StartConnectionAsWritten(portId)
  \/ \E portId \in DOMAIN ports \cup {NoId} : MouseUpAsWritten(portId)
  \/ \E key \in Keys : KeyDownAsWritten(key)

SpecGesture == Init /\ [][NextGesture]_vars

\* ---------------------------------------------- the editor on a pump and a vessel
\* The empty editor with the pump tool used at {100,100}, the vessel tool at
\* {300,100} and groups dragged to {150,150}.
ScenarioAdds ==
  { [type |-> "PUMP", position |-> Pt(100, 100)],
    [type |-> "VESSEL", position |-> Pt(300, 100)] }

ScenarioMoves == { Pt(150, 150) }

NextScenario ==
  \/ \E add \in ScenarioAdds : AddEquipment(add.type, add.position)
  \/ \E portId \in DOMAIN ports : StartConnection(portId)
  \/ \E portId \in DOMAIN ports : MouseUpConnect(portId)
  \/ \E id \in DOMAIN elements, newPosition \in ScenarioMoves : DragEnd(id, newPosition)
  \/ \E elementId \in DOMAIN elements : SelectElement(elementId)
  \/ DeleteSelected

SpecScenario == InitEmpty /\ [][NextScenario]_vars

\* ------------------------------------------------ the file round trip on its own
\* The shell saves a document with serializeToDexpiXml and opens the file again with
\* parseFromDexpiXml (handleFileChange).  The documents are those a file can hold:
\* with properties of every kind of value, and with several items in every
\* collection, in either order.
PropertyValues ==
  { BooleanValue(TRUE), BooleanValue(FALSE),
    NumberValue(0), NumberValue(100), NumberValue(0 - 5),
    StringValue(<< "t", "r", "u", "e" >>), StringValue(<< "T", "r", "u", "e" >>),
    StringValue(<< "F", "A", "L", "S", "E" >>), StringValue(<< "1", "0", "0" >>),
    StringValue(<< "-", "5" >>), StringValue(<< "a", "b", "c" >>), StringValue(<<>>) }

PropertyDocuments ==
  { [ id |-> 1, name |-> "Plant", equipment |-> <<>>, pipingNetworks |-> <<>>,
      instruments |-> <<>>, processConnections |-> <<>>, properties |-> ps ] :
    ps \in { << [name |-> "design", value |-> v] >> : v \in PropertyValues }
           \cup { << [name |-> "design", value |-> v],
                     [name |-> "rating", value |-> w, unit |-> "bar"] >> :
                  v \in PropertyValues, w \in PropertyValues } }

Reversed(s) == [ i \in 1..Len(s) |-> s[Len(s) + 1 - i] ]

Ordered(s, reversed) == IF reversed THEN Reversed(s) ELSE s

\* a plant with two of everything; r tells which collections are written reversed
OrderDocument(r) ==
  LET pump == NewEquipment("PUMP", Pt(0, 0), 10)
      vessel == NewEquipment("VESSEL", Pt(100, 0), 20)
      valve == NewFitting("VALVE", Pt(50, 0), 30)
      nonReturn == NewFitting("CHECK_VALVE", Pt(70, 0), 40)
      indicator == NewInstrument("INDICATOR", Pt(50, 50), 50)
      controller == NewInstrument("CONTROLLER", Pt(70, 50), 60)
      first == [ id |-> 71, lineId |-> 81, startPoint |-> pump.nozzles[2].position,
                 endPoint |-> valve.connectionPoints[1].position,
                 startConnectedTo |-> pump.nozzles[2].id,
                 endConnectedTo |-> valve.connectionPoints[1].id ]
      second == [ id |-> 72, lineId |-> 81, startPoint |-> valve.connectionPoints[2].position,
                  endPoint |-> nonReturn.connectionPoints[1].position,
                  startConnectedTo |-> valve.connectionPoints[2].id,
                  endConnectedTo |-> nonReturn.connectionPoints[1].id ]
      third == [ id |-> 73, lineId |-> 82, startPoint |-> nonReturn.connectionPoints[2].position,
                 endPoint |-> vessel.nozzles[1].position,
                 startConnectedTo |-> nonReturn.connectionPoints[2].id,
                 endConnectedTo |-> vessel.nozzles[1].id ]
      feed == [ id |-> 81, name |-> "Feed", segments |-> Ordered(<< 71, 72 >>, r.references) ]
      outlet == [ id |-> 82, name |-> "Outlet", segments |-> << 73 >> ]
      main == [ id |-> 91, name |-> "Main", lines |-> Ordered(<< feed, outlet >>, r.lines),
                fittings |-> Ordered(<< valve, nonReturn >>, r.fittings),
                lineSegments |-> Ordered(<< first, second, third >>, r.segments) ]
      spare == [ id |-> 92, name |-> "Spare", lines |-> <<>>, fittings |-> <<>>,
                 lineSegments |-> <<>> ]
      flow == [ id |-> 95, sourceId |-> 10, targetId |-> 20,
                connectionType |-> "MATERIAL_FLOW" ]
      heat == [ id |-> 96, sourceId |-> 20, targetId |-> 10,
                connectionType |-> "ENERGY_FLOW" ]
  IN [ id |-> 1, name |-> "Plant",
       equipment |-> Ordered(<< pump, vessel >>, r.equipment),
       pipingNetworks |-> Ordered(<< main, spare >>, r.networks),
       instruments |-> Ordered(<< indicator, controller >>, r.instruments),
       processConnections |-> Ordered(<< flow, heat >>, r.connections) ]

OrderDocuments ==
  { OrderDocument(r) :
      r \in [ equipment : BOOLEAN, networks : BOOLEAN, lines : BOOLEAN,
              references : BOOLEAN, fittings : BOOLEAN, segments : BOOLEAN,
              instruments : BOOLEAN, connections : BOOLEAN ] }

InitCodec ==
  /\ doc \in PropertyDocuments \cup OrderDocuments
  /\ elements = loadDocumentElements(createEmptyDocument)
  /\ ports = loadDocumentPorts(createEmptyDocument)
  /\ selectedElement = NoId
  /\ connectionInProgress = Null
  /\ nextId = MaxIdOf(doc) + 1
  /\ used = [added |-> 0, connected |-> 0]
  /\ last = "init"
  /\ shellDocument = doc
  /\ tempLines = 0
  /\ listeners = {}

\* the document is written to a file and the file is opened again
SaveAndReopen ==
  /\ last = "init"
  /\ shellDocument = doc
  /\ doc' = RoundTrip(doc)
  /\ last' = "reopened"
  /\ shellDocument' = doc'
  /\ UNCHANGED <<tempLines, listeners>>
  /\ UNCHANGED << elements, ports, selectedElement, connectionInProgress, nextId, used >>

NextCodec == SaveAndReopen

SpecCodec == InitCodec /\ [][NextCodec]_vars

\* ------------------------------------------------------ the application shell
\* The shell keeps its own `document` state, mounts the Canvas with it as
\* initialDocument and edits it in its header and its properties tab.  The Canvas
\* reads initialDocument when it is mounted only (useState, line 167, and the mount
\* effect, 211-213); none of the shell's handlers below mounts it again.
MaxShellId == 8

ShellNames == { "Unit 100", "Unit 200" }

\* handleDocumentNameChange, and the name field of the properties tab
RenameDocument(newName) ==
  /\ shellDocument' = [shellDocument EXCEPT !.name = newName]
  /\ UNCHANGED <<tempLines, listeners>>
  /\ UNCHANGED <<doc, elements, ports, selectedElement, connectionInProgress, nextId,
                 used, last>>

\* the description field of the properties tab
EditDescription(text) ==
  /\ shellDocument' = ("description" :> text) @@ shellDocument
  /\ UNCHANGED <<tempLines, listeners>>
  /\ UNCHANGED <<doc, elements, ports, selectedElement, connectionInProgress, nextId,
                 used, last>>

\* handleNewDocument: createEmptyDocument('New P&ID') with an id of its own
NewDocument ==
  /\ nextId < MaxShellId
  /\ shellDocument' = [createEmptyDocument EXCEPT !.id = nextId]
  /\ nextId' = nextId + 1
  /\ UNCHANGED <<tempLines, listeners>>
  /\ UNCHANGED <<doc, elements, ports, selectedElement, connectionInProgress, used, last>>

NextShell ==
  \/ \E newName \in ShellNames : RenameDocument(newName)
  \/ EditDescription("draft")
  \/ NewDocument
  \/ \E type \in EquipmentInputs, position \in Positions : AddEquipment(type, position)
  \/ \E id \in DOMAIN elements, newPosition \in Positions : DragEnd(id, newPosition)
  \/ \E elementId \in DOMAIN elements \cup {NoId} : SelectElement(elementId)
  \/ DeleteSelected

SpecShell == InitEmpty /\ [][NextShell]_vars

\* ------------------------------------------------------------------ claims
\* the connecting elements of a document: piping segments and signal lines
Connections(d) == Range(AllSegments(d)) \cup Range(AllSignalLines(d))

SegmentIds(d) == { sg.id : sg \in Range(AllSegments(d)) }

\* C1: in every reachable document, each endpoint of a line segment or signal line
\* whose *ConnectedTo names a port of the document has that port's position
EndpointsAtPorts ==
  \A c \in Connections(doc) :
    /\ c.startConnectedTo \in DocPortIds(doc)
         => c.startPoint = PortPosition(doc, c.startConnectedTo)
    /\ c.endConnectedTo \in DocPortIds(doc)
         => c.endPoint = PortPosition(doc, c.endConnectedTo)

\* C2: a drag of equipment E to newPosition moves every nozzle of E by
\* newPosition - E.position, and afterwards every segment end connected to a
\* nozzle of E lies at that nozzle's new position
EquipmentMoveRepositions ==
  [][\A id \in DOMAIN elements, newPosition \in Positions :
       (DragEnd(id, newPosition) /\ elements[id].type = "equipment") =>
         LET e == FindIndex(doc.equipment, LAMBDA eq : eq.id = id)
             E == doc.equipment[e]
         IN /\ e # 0
            /\ \A i \in 1..Len(E.nozzles) :
                 doc'.equipment[e].nozzles[i].position =
                   Pt(E.nozzles[i].position.x + (newPosition.x - E.position.x),
                      E.nozzles[i].position.y + (newPosition.y - E.position.y))
            /\ \A sg \in Range(AllSegments(doc')) :
                 /\ sg.startConnectedTo \in NozzleIds(E)
                      => sg.startPoint = PortPosition(doc', sg.startConnectedTo)
                 /\ sg.endConnectedTo \in NozzleIds(E)
                      => sg.endPoint = PortPosition(doc', sg.endConnectedTo)
    ]_vars

\* C3: in every reachable document, every non-empty startConnectedTo / endConnectedTo
\* of a line segment or signal line is the id of a port of the document
ReferencesExist ==
  \A c \in Connections(doc) :
    /\ c.startConnectedTo # NoId => c.startConnectedTo \in DocPortIds(doc)
    /\ c.endConnectedTo # NoId => c.endConnectedTo \in DocPortIds(doc)

\* C4: after the deletion of a selected equipment, fitting or instrument E the
\* document holds neither E nor a port of E, and no line segment or signal line
\* refers to a port E owned
DeleteRemovesEntity ==
  [][(DeleteSelected /\ elements[selectedElement].type \in GroupTypes) =>
       LET owned == OwnedPortIds(doc, selectedElement) IN
       /\ selectedElement \notin EntityIds(doc')
       /\ owned \cap DocPortIds(doc') = {}
       /\ \A c \in Connections(doc') :
            c.startConnectedTo \notin owned /\ c.endConnectedTo \notin owned
    ]_vars

\* C5: the deletion of a selected entity E keeps, in its network and with its
\* value, every line segment neither end of which is a port of E, and leaves the
\* other equipment, fittings and instruments as they were
DeleteKeepsUnrelated ==
  [][(DeleteSelected /\ elements[selectedElement].type \in GroupTypes) =>
       LET owned == OwnedPortIds(doc, selectedElement)
           Others(sq) == SelectSeq(sq, LAMBDA x : x.id # selectedElement)
       IN
       /\ Len(doc'.pipingNetworks) = Len(doc.pipingNetworks)
       /\ \A n \in 1..Len(doc.pipingNetworks) :
            /\ \A sg \in Range(doc.pipingNetworks[n].lineSegments) :
                 (sg.startConnectedTo \notin owned /\ sg.endConnectedTo \notin owned)
                   => sg \in Range(doc'.pipingNetworks[n].lineSegments)
            /\ doc'.pipingNetworks[n].fittings = Others(doc.pipingNetworks[n].fittings)
       /\ doc'.equipment = Others(doc.equipment)
       /\ doc'.instruments = Others(doc.instruments)
    ]_vars

\* an entity added after the one segment ever drawn has been deleted again, and
\* the segment is still there between two ports of the document
DeleteKeepsUnrelatedReached ==
  /\ used.connected = 1
  /\ Len(AllSegments(doc)) = 1
  /\ nextId > MaxIdOf(doc) + 1
  /\ \A sg \in Range(AllSegments(doc)) :
       {sg.startConnectedTo, sg.endConnectedTo} \subseteq DocPortIds(doc)

\* C6: in every network of every reachable document, the ids in the lines'
\* segments lists are exactly the ids of the network's lineSegments, each once
LinesMatchSegments ==
  \A n \in Range(doc.pipingNetworks) :
    LET listed == FlattenSeq(MapSeq(n.lines, LAMBDA l : l.segments))
        held == MapSeq(n.lineSegments, LAMBDA sg : sg.id)
    IN /\ Range(listed) = Range(held)
       /\ Len(listed) = Cardinality(Range(listed))
       /\ Len(held) = Cardinality(Range(held))

\* two segments were drawn, one of them was deleted and a line lists the other
LinesMatchSegmentsReached ==
  /\ used.connected = 2
  /\ Len(AllSegments(doc)) = 1
  /\ \E l \in Range(AllLines(doc)) : Len(l.segments) = 1

\* C7: a mouseup over port b ending a gesture started on port a # b, both ports of
\* the document, adds exactly one segment, from a at a's position to b at b's
\* position in the document at that moment, listed by the default line of the
\* default network and held in that network's lineSegments
ConnectUsesCurrentPositions ==
  [][\A portId \in DOMAIN ports :
       (MouseUpConnect(portId)
          /\ {connectionInProgress.startPort, portId} \subseteq DocPortIds(doc)) =>
         LET a == connectionInProgress.startPort
             new == { sg \in Range(AllSegments(doc')) : sg.id \notin SegmentIds(doc) }
         IN /\ Cardinality(new) = 1
            /\ Len(AllSegments(doc')) = Len(AllSegments(doc)) + 1
            /\ \A sg \in new :
                 /\ sg.startConnectedTo = a
                 /\ sg.endConnectedTo = portId
                 /\ sg.startPoint = PortPosition(doc, a)
                 /\ sg.endPoint = PortPosition(doc, portId)
                 /\ \E n \in Range(doc'.pipingNetworks) :
                      /\ IsDefaultNetwork(n)
                      /\ n.lineSegments # <<>>
                      /\ n.lineSegments[Len(n.lineSegments)] = sg
                      /\ \E l \in Range(n.lines) :
                           /\ IsDefaultLine(l)
                           /\ l.segments # <<>>
                           /\ l.segments[Len(l.segments)] = sg.id
    ]_vars

\* C8: a step of any handler other than the deletion keeps every equipment,
\* fitting, instrument, port and segment of the document in the document
OnlyDeleteDestroys ==
  [][~DeleteSelected =>
       /\ EntityIds(doc) \subseteq EntityIds(doc')
       /\ DocPortIds(doc) \subseteq DocPortIds(doc')
       /\ SegmentIds(doc) \subseteq SegmentIds(doc')
    ]_vars

\* two entities were added, one was dragged away from where it was added, a
\* segment was drawn, and all of them are in the document
OnlyDeleteDestroysReached ==
  /\ used.added >= 2
  /\ used.connected >= 1
  /\ Cardinality(EntityIds(doc)) = used.added
  /\ Len(AllSegments(doc)) = used.connected
  /\ \E p \in DocPorts(doc) : p.id \in DOMAIN ports /\ ports[p.id].startPoint # p.position

\* C9: a mouseup over the port the gesture started on leaves the document as it was
SelfConnectIsNoop ==
  [][\A portId \in DOMAIN ports :
       (/\ connectionInProgress # Null
        /\ portId = connectionInProgress.startPort
        /\ (MouseUpConnect(portId) \/ MouseUpNoConnect(portId)))
         => doc' = doc
    ]_vars

\* a gesture has just ended over its own start port
SelfConnectIsNoopReached ==
  /\ last = "mouseUpSame"
  /\ connectionInProgress = Null
  /\ DocPortIds(doc) # {}

\* C10: a handler given an id the document does not hold (a position update for
\* an id that names no entity of that kind, a mouseup ending a gesture one of
\* whose two port ids is no port of the document) leaves the document as it was
UnknownIdIsNoop ==
  [][/\ \A type \in GroupTypes, id \in {GhostId}, newPosition \in Positions :
          UpdateUnknown(type, id, newPosition) => doc' = doc
     /\ \A portId \in DOMAIN ports \cup {NoId, GhostId} :
          (/\ connectionInProgress # Null
           /\ {connectionInProgress.startPort, portId} \ DocPortIds(doc) # {}
           /\ (MouseUpConnect(portId) \/ MouseUpNoConnect(portId)))
            => doc' = doc
    ]_vars

\* C11: every reachable document holds at most one network named "Default
\* Network", and that network at most one line named "Default Line"
AtMostOneDefault ==
  /\ Cardinality({ i \in 1..Len(doc.pipingNetworks) :
                     doc.pipingNetworks[i].name = "Default Network" }) <= 1
  /\ \A n \in Range(doc.pipingNetworks) :
       n.name = "Default Network" =>
         Cardinality({ i \in 1..Len(n.lines) : n.lines[i].name = "Default Line" }) <= 1

\* the default network was made for a fitting and then used by two connections
AtMostOneDefaultReached ==
  \E n \in Range(doc.pipingNetworks) :
    /\ n.name = "Default Network"
    /\ Len(n.fittings) = 1
    /\ Len(n.lineSegments) = 2
    /\ \E l \in Range(n.lines) : l.name = "Default Line" /\ Len(l.segments) = 2

\* C12: a mouseup over port b ending a gesture started on port a, when a segment
\* from a to b is already in the default network, keeps that segment and adds one
\* with another id, also from a to b, in the same network, and the default line
\* of that network lists both ids
ConnectTwiceMakesTwo ==
  [][\A portId \in DOMAIN ports :
       MouseUpConnect(portId) =>
         \A n \in Range(doc.pipingNetworks) : \A old \in Range(n.lineSegments) :
           (/\ IsDefaultNetwork(n)
            /\ old.startConnectedTo = connectionInProgress.startPort
            /\ old.endConnectedTo = portId) =>
             \E m \in Range(doc'.pipingNetworks) :
               /\ m.id = n.id
               /\ old \in Range(m.lineSegments)
               /\ \E new \in Range(m.lineSegments) :
                    /\ new.id \notin SegmentIds(doc)
                    /\ new.id # old.id
                    /\ new.startConnectedTo = old.startConnectedTo
                    /\ new.endConnectedTo = old.endConnectedTo
                    /\ \E l \in Range(m.lines) :
                         /\ IsDefaultLine(l)
                         /\ {old.id, new.id} \subseteq Range(l.segments)
    ]_vars

\* two segments with different ids join the same two ports in that order
ConnectTwiceMakesTwoReached ==
  \E n \in Range(doc.pipingNetworks) :
    \E i, j \in 1..Len(n.lineSegments) :
      /\ i < j
      /\ n.lineSegments[i].id # n.lineSegments[j].id
      /\ n.lineSegments[i].startConnectedTo = n.lineSegments[j].startConnectedTo
      /\ n.lineSegments[i].endConnectedTo = n.lineSegments[j].endConnectedTo
      /\ \E l \in Range(n.lines) :
           {n.lineSegments[i].id, n.lineSegments[j].id} \subseteq Range(l.segments)

\* every id of a document, one entry per object that carries it
AllIds(d) ==
  <<d.id>>
  \o MapSeq(d.equipment, LAMBDA e : e.id)
  \o FlattenSeq(MapSeq(d.equipment, LAMBDA e : MapSeq(e.nozzles, LAMBDA z : z.id)))
  \o MapSeq(d.pipingNetworks, LAMBDA n : n.id)
  \o MapSeq(AllLines(d), LAMBDA l : l.id)
  \o MapSeq(AllSegments(d), LAMBDA sg : sg.id)
  \o MapSeq(AllFittings(d), LAMBDA f : f.id)
  \o FlattenSeq(MapSeq(AllFittings(d), LAMBDA f : MapSeq(f.connectionPoints, LAMBDA c : c.id)))
  \o MapSeq(d.instruments, LAMBDA n : n.id)
  \o FlattenSeq(MapSeq(d.instruments, LAMBDA n : MapSeq(n.connectionPoints, LAMBDA c : c.id)))
  \o MapSeq(AllSignalLines(d), LAMBDA sl : sl.id)

Offsets(owner, portSeq) ==
  [ i \in 1..Len(portSeq) |-> Pt(portSeq[i].position.x - owner.position.x,
                                portSeq[i].position.y - owner.position.y) ]

TemplateOffsets(symbolData) ==
  [ i \in 1..Len(symbolData) |-> Pt(symbolData[i].x, symbolData[i].y) ]

\* C14: in every reachable document each port lies at its owner's position plus
\* the offset of its place in the owner's symbol template, names its owner in its
\* back-reference, and no port id is held by two owners
PortsFollowOwner ==
  /\ \A e \in Range(doc.equipment) :
       /\ Offsets(e, e.nozzles) = TemplateOffsets(EquipmentSymbol(e.type))
       /\ \A z \in Range(e.nozzles) : z.equipmentId = e.id
  /\ \A f \in Range(AllFittings(doc)) :
       /\ Offsets(f, f.connectionPoints) = TemplateOffsets(FittingSymbol(f.fittingType))
       /\ \A c \in Range(f.connectionPoints) : c.fittingId = f.id
  /\ \A n \in Range(doc.instruments) :
       /\ Offsets(n, n.connectionPoints) = TemplateOffsets(InstrumentSymbol(n.instrumentType))
       /\ \A c \in Range(n.connectionPoints) : c.instrumentId = n.id
  /\ \A p, q \in DocPorts(doc) : p.id = q.id => p.owner = q.owner

\* an equipment, a fitting or an instrument is no longer where it was added
PortsFollowOwnerReached ==
  \E p \in DocPorts(doc) :
    /\ p.id \in DOMAIN ports
    /\ ports[p.id].startPoint # p.position
    /\ used.connected >= 1

\* C15: a click with the equipment tool appends one equipment with an id the
\* document did not hold, of the clicked type at the clicked position, whose
\* nozzles are the ports of the type's symbol template in template order, each at
\* position + template offset; a type without a template gets the vessel's ports
AddEquipmentFollowsTemplate ==
  [][\A type \in EquipmentTypes, position \in Positions :
       AddEquipment(type, position) =>
         LET template == IF type \in {"VESSEL", "PUMP", "HEAT_EXCHANGER", "COLUMN"}
                         THEN SYMBOL_PATHS[type] ELSE SYMBOL_PATHS["VESSEL"]
             n == Len(doc.equipment)
             e == doc'.equipment[n + 1]
         IN /\ Len(doc'.equipment) = n + 1
            /\ SubSeq(doc'.equipment, 1, n) = doc.equipment
            /\ e.id \notin Range(AllIds(doc))
            /\ e.type = type
            /\ e.position = position
            /\ Len(e.nozzles) = Len(template)
            /\ \A i \in 1..Len(template) :
                 /\ e.nozzles[i].name = template[i].name
                 /\ e.nozzles[i].position =
                      Pt(position.x + template[i].x, position.y + template[i].y)
                 /\ e.nozzles[i].id \notin Range(AllIds(doc)) \cup {e.id}
    ]_vars

\* an equipment of a type without a template and one of a type with its own
\* template are in the document
AddEquipmentFollowsTemplateReached ==
  /\ \E e \in Range(doc.equipment) : e.type = "TANK" /\ Len(e.nozzles) = 4
  /\ \E e \in Range(doc.equipment) : e.type = "COLUMN" /\ Len(e.nozzles) = 7

\* C16: a drag of entity E leaves every other equipment, fitting and instrument
\* (its ports included) as it was, keeps every network's lines and their segments
\* lists, and changes of the segments and signal lines nothing but the endpoints
\* connected to a port of E
MoveTouchesOnlyOwn ==
  [][\A id \in DOMAIN elements, newPosition \in Positions :
       DragEnd(id, newPosition) =>
         LET owned == OwnedPortIds(doc, id)
             Same(old, new) ==
               /\ new.id = old.id
               /\ new.startConnectedTo = old.startConnectedTo
               /\ new.endConnectedTo = old.endConnectedTo
               /\ old.startConnectedTo \notin owned => new.startPoint = old.startPoint
               /\ old.endConnectedTo \notin owned => new.endPoint = old.endPoint
         IN
         /\ Len(doc'.equipment) = Len(doc.equipment)
         /\ \A i \in 1..Len(doc.equipment) :
              doc.equipment[i].id # id => doc'.equipment[i] = doc.equipment[i]
         /\ Len(doc'.instruments) = Len(doc.instruments)
         /\ \A i \in 1..Len(doc.instruments) :
              /\ doc.instruments[i].id # id => doc'.instruments[i] = doc.instruments[i]
              /\ Len(doc'.instruments[i].signalLines) = Len(doc.instruments[i].signalLines)
              /\ \A k \in 1..Len(doc.instruments[i].signalLines) :
                   Same(doc.instruments[i].signalLines[k], doc'.instruments[i].signalLines[k])
         /\ Len(doc'.pipingNetworks) = Len(doc.pipingNetworks)
         /\ \A n \in 1..Len(doc.pipingNetworks) :
              LET old == doc.pipingNetworks[n]
                  new == doc'.pipingNetworks[n]
              IN /\ new.id = old.id /\ new.name = old.name
                 /\ new.lines = old.lines
                 /\ Len(new.fittings) = Len(old.fittings)
                 /\ \A i \in 1..Len(old.fittings) :
                      old.fittings[i].id # id => new.fittings[i] = old.fittings[i]
                 /\ Len(new.lineSegments) = Len(old.lineSegments)
                 /\ \A i \in 1..Len(old.lineSegments) :
                      /\ Same(old.lineSegments[i], new.lineSegments[i])
                      /\ new.lineSegments[i].lineId = old.lineSegments[i].lineId
    ]_vars

\* a segment from a nozzle to an instrument's point whose instrument was dragged
\* after the segment was drawn: the nozzle's end is where the nozzle is
MoveTouchesOnlyOwnReached ==
  \E sg \in Range(AllSegments(doc)) :
    /\ \E e \in Range(doc.equipment) : sg.startConnectedTo \in NozzleIds(e)
    /\ sg.startPoint = PortPosition(doc, sg.startConnectedTo)
    /\ \E n \in Range(doc.instruments) : sg.endConnectedTo \in PointIds(n)
    /\ sg.endPoint # PortPosition(doc, sg.endConnectedTo)

\* C17: a connect leaves the Document it started from with the value it had: the
\* object the editor held (and handed to its listener) before the connect reads
\* the same once createConnection has returned
SnapshotKeepsValue ==
  [][\A portId \in DOMAIN ports :
       MouseUpConnect(portId) =>
         documentAfterCreateConnection(doc, connectionInProgress.startPort, portId,
                                       connectionInProgress.startPoint,
                                       PortElementPosition(elements, ports, portId),
                                       nextId) = doc
    ]_vars

NetworkShape(d) ==
  MapSeq(d.pipingNetworks, LAMBDA n :
    [ id |-> n.id,
      lines |-> MapSeq(n.lines, LAMBDA l : [id |-> l.id, segments |-> l.segments]),
      fittings |-> MapSeq(n.fittings, LAMBDA f : f.id),
      lineSegments |-> MapSeq(n.lineSegments, LAMBDA sg :
        [ id |-> sg.id,
          startConnectedTo |-> Opt(sg, "startConnectedTo"),
          endConnectedTo |-> Opt(sg, "endConnectedTo"),
          startPoint |-> sg.startPoint,
          endPoint |-> sg.endPoint ]) ])

\* C19: for every document built by the editor's operations, decoding its encoding
\* gives as many equipment, networks, fittings, segments, instruments and process
\* connections, the same id for every entity, port, line and segment, and the same
\* startConnectedTo / endConnectedTo and endpoint coordinates for every segment
RoundTripKeepsGraph ==
  \A d \in { RoundTrip(doc) } :
  /\ Len(d.equipment) = Len(doc.equipment)
  /\ Len(d.pipingNetworks) = Len(doc.pipingNetworks)
  /\ Len(AllFittings(d)) = Len(AllFittings(doc))
  /\ Len(AllSegments(d)) = Len(AllSegments(doc))
  /\ Len(d.instruments) = Len(doc.instruments)
  /\ Len(d.processConnections) = Len(doc.processConnections)
  /\ Tail(AllIds(d)) = Tail(AllIds(doc))
  /\ NetworkShape(d) = NetworkShape(doc)
  /\ \A i \in 1..Len(doc.equipment) :
       \A j \in 1..Len(doc.equipment[i].nozzles) :
         d.equipment[i].nozzles[j].equipmentId = doc.equipment[i].nozzles[j].equipmentId

\* an equipment, a fitting and a segment with a negative coordinate are in the
\* document, and an entity was dragged after it was added
RoundTripKeepsGraphReached ==
  /\ doc.equipment # <<>>
  /\ AllFittings(doc) # <<>>
  /\ \E sg \in Range(AllSegments(doc)) : sg.startPoint.x < 0
  /\ \E id \in DOMAIN ports : ports[id].startPoint # PortPosition(doc, id)

\* the optional scalar fields of an object, each as the set of its values
ScalarFields(r) ==
  [ name |-> Opt(r, "name"), description |-> Opt(r, "description"),
    tag |-> Opt(r, "tag"), position |-> Opt(r, "position"),
    properties |-> Opt(r, "properties") ]

\* C20: for every document built by the editor's operations, decoding its encoding
\* gives every equipment, fitting, instrument, network and the document the same
\* name, description, tag, position and properties, an absent field staying absent
RoundTripKeepsFields ==
  \A d \in { RoundTrip(doc) } :
  /\ ScalarFields(d) = ScalarFields(doc)
  /\ MapSeq(d.equipment, ScalarFields) = MapSeq(doc.equipment, ScalarFields)
  /\ MapSeq(d.pipingNetworks, ScalarFields) = MapSeq(doc.pipingNetworks, ScalarFields)
  /\ MapSeq(AllFittings(d), ScalarFields) = MapSeq(AllFittings(doc), ScalarFields)
  /\ MapSeq(d.instruments, ScalarFields) = MapSeq(doc.instruments, ScalarFields)

\* the elements of an encoding that have neither text nor children
EmptyElements(xml) ==
  { i \in 1..Len(xml) :
      /\ xml[i].text = <<>>
      /\ (i = Len(xml) \/ xml[i + 1].depth <= xml[i].depth) }

\* C21: the encoding of the editor's document holds no empty element: an absent
\* optional field and an empty collection are not written at all
EncodeOmitsAbsent == EmptyElements(serializeToDexpiXml(doc)) = {}

\* an element as a hand-written file can hold it: without the children of its own
\* that carry the tag (the children of its parts stay)
OwnChildren(element, tag) ==
  { k \in 2..Len(element) :
      element[k].tag = tag /\ element[k].depth = element[1].depth + 1 }

WithoutOwn(element, tag) ==
  LET gone == UNION { k..(k + Len(Subtree(element, k)) - 1) : k \in OwnChildren(element, tag) }
      kept == SelectSeq([ i \in 1..Len(element) |-> i ], LAMBDA i : i \notin gone)
  IN MapSeq(kept, LAMBDA i : element[i])

\* the ids written in an element
IdsIn(element) ==
  { element[i].text[1] : i \in { j \in 1..Len(element) : element[j].tag = "Id" } }

\* C22: an equipment, fitting or instrument element that has no Id child of its
\* own decodes with a generated id, which none of the ids written in the element
\* (those of its nozzles and connection points) equals
DecodeWithoutIdIsFresh ==
  /\ \A e \in Range(doc.equipment) :
       LET xml == WithoutOwn(appendEquipmentElement(e), "Id") IN
       parseEquipment(xml, 10000).id \notin IdsIn(xml)
  /\ \A f \in Range(AllFittings(doc)) :
       LET xml == WithoutOwn(appendPipingFittingElement(f), "Id") IN
       parsePipingFitting(xml, 10000).id \notin IdsIn(xml)
  /\ \A i \in Range(doc.instruments) :
       LET xml == WithoutOwn(appendInstrumentElement(i), "Id") IN
       parseInstrument(xml, 10000).id \notin IdsIn(xml)

\* C23: a segment or signal line element without StartPoint and EndPoint decodes
\* with both points at the origin, and an equipment, fitting or instrument element
\* without a Position child of its own decodes without position, whatever Position
\* its nozzles and connection points carry
DecodeWithoutPosition ==
  /\ \A s \in Range(AllSegments(doc)) :
       LET xml == WithoutOwn(WithoutOwn(appendLineSegmentElement(s), "StartPoint"),
                             "EndPoint")
           segment == parseLineSegment(xml, 10000)
       IN segment.startPoint = Pt(0, 0) /\ segment.endPoint = Pt(0, 0)
  /\ \A l \in Range(AllSignalLines(doc)) :
       LET xml == WithoutOwn(WithoutOwn(appendSignalLineElement(l), "StartPoint"),
                             "EndPoint")
           line == parseSignalLine(xml, 10000)
       IN line.startPoint = Pt(0, 0) /\ line.endPoint = Pt(0, 0)
  /\ \A e \in Range(doc.equipment) :
       Opt(parseEquipment(WithoutOwn(appendEquipmentElement(e), "Position"), 10000),
           "position") = {}
  /\ \A f \in Range(AllFittings(doc)) :
       Opt(parsePipingFitting(WithoutOwn(appendPipingFittingElement(f), "Position"), 10000),
           "position") = {}
  /\ \A i \in Range(doc.instruments) :
       Opt(parseInstrument(WithoutOwn(appendInstrumentElement(i), "Position"), 10000),
           "position") = {}

\* what the text of the claim gives for a property value: a boolean and a number
\* stay, a string that reads true or false in any case becomes the boolean, a
\* string of decimal digits with or without sign becomes the number, every other
\* string stays
InferredValue(v) ==
  IF v.typeof # "string" THEN v
  ELSE IF toLowerCase(v.value) = << "t", "r", "u", "e" >> THEN BooleanValue(TRUE)
  ELSE IF toLowerCase(v.value) = << "f", "a", "l", "s", "e" >> THEN BooleanValue(FALSE)
  ELSE IF IsDigits(v.value) THEN NumberValue(ParseDigits(v.value))
  ELSE IF v.value # <<>> /\ Head(v.value) = "-" /\ IsDigits(Tail(v.value))
    THEN NumberValue(0 - ParseDigits(Tail(v.value)))
  ELSE v

\* C24: saving and reopening a document gives every property back, in order, with
\* its name and the value the inference gives: booleans and numbers as they were,
\* "true"/"false" strings as booleans, numeric strings as numbers, every other
\* string unchanged
PropertyValuesRoundTrip ==
  [][ (last' = "reopened" /\ Opt(doc, "properties") # {})
      => /\ Opt(doc', "properties") # {}
         /\ Len(doc'.properties) = Len(doc.properties)
         /\ \A i \in 1..Len(doc.properties) :
              /\ doc'.properties[i].name = doc.properties[i].name
              /\ doc'.properties[i].value = InferredValue(doc.properties[i].value) ]_vars

\* the encoding of a document cut after its first n elements, the end tags missing
Truncated(xml, n) == SubSeq(xml, 1, n)

\* C25: decoding a text that is not well-formed (the encoding of the editor's
\* document cut anywhere) ends in an error, whichever way the parser reports it,
\* and never in a document
MalformedXmlIsAnError ==
  LET xml == serializeToDexpiXml(doc) IN
  \A n \in 1..(Len(xml) - 1) :
    \A result \in DOMParserResults(Truncated(xml, n)) :
      parseResult(result, 10000).outcome = "error"

\* the ids of a document collection by collection, in their order
OrderOf(d) ==
  [ equipment |-> MapSeq(d.equipment, LAMBDA e : e.id),
    nozzles |-> MapSeq(d.equipment, LAMBDA e : MapSeq(e.nozzles, LAMBDA n : n.id)),
    networks |-> MapSeq(d.pipingNetworks, LAMBDA n : n.id),
    lines |-> MapSeq(d.pipingNetworks, LAMBDA n : MapSeq(n.lines, LAMBDA l : l.id)),
    references |-> MapSeq(d.pipingNetworks,
                     LAMBDA n : MapSeq(n.lines, LAMBDA l : l.segments)),
    fittings |-> MapSeq(d.pipingNetworks, LAMBDA n : MapSeq(n.fittings, LAMBDA f : f.id)),
    segments |-> MapSeq(d.pipingNetworks,
                   LAMBDA n : MapSeq(n.lineSegments, LAMBDA g : g.id)),
    instruments |-> MapSeq(d.instruments, LAMBDA i : i.id),
    connections |-> MapSeq(d.processConnections, LAMBDA c : c.id) ]

\* C26: saving and reopening a document lists equipment, nozzles, networks, lines,
\* the segment ids of each line, fittings, segments, instruments and process
\* connections in the order the saved document had them
RoundTripKeepsOrder ==
  [][ last' = "reopened" => OrderOf(doc') = OrderOf(doc) ]_vars

\* a document reopened with two of everything, every collection in the order
\* opposite to the one it is built in
RoundTripKeepsOrderReached ==
  /\ last = "reopened"
  /\ OrderOf(doc) = OrderOf(OrderDocument(
        [ equipment |-> TRUE, networks |-> TRUE, lines |-> TRUE, references |-> TRUE,
          fittings |-> TRUE, segments |-> TRUE, instruments |-> TRUE,
          connections |-> TRUE ]))
  /\ doc.equipment[1].id > doc.equipment[2].id
  /\ doc.processConnections[1].id > doc.processConnections[2].id

\* the place of a kind of element in the drawing order
DrawingRank(kind) ==
  CASE kind = "network" -> 1 [] kind = "equipment" -> 2
    [] kind = "instrument" -> 3 [] kind = "signal" -> 4

\* C27: in the main layer of the exported drawing of the editor's document every
\* network group comes before every equipment, every equipment before every
\* instrument, every instrument before every signal line; inside a network group
\* every segment comes before every fitting; and everything of the document is drawn
ExportOrder ==
  LET layer == mainLayer(doc) IN
  /\ \A i, j \in 1..Len(layer) :
       i < j => DrawingRank(layer[i].kind) <= DrawingRank(layer[j].kind)
  /\ \A k \in 1..Len(layer) :
       layer[k].kind = "network" =>
         \A i, j \in 1..Len(layer[k].children) :
           i < j => ~(layer[k].children[i].kind = "fitting"
                      /\ layer[k].children[j].kind = "segment")
  /\ { g.id : g \in { h \in Range(layer) : h.kind # "network" } }
       \cup UNION { { c.id : c \in Range(g.children) } :
                    g \in { h \in Range(layer) : h.kind = "network" } }
     = EntityIds(doc) \cup { g.id : g \in Range(AllSegments(doc)) }
       \cup { l.id : l \in Range(AllSignalLines(doc)) }

\* a document with a network that holds a segment and a fitting, and an equipment
ExportOrderReached ==
  /\ \E n \in Range(doc.pipingNetworks) : Len(n.lineSegments) > 0 /\ Len(n.fittings) > 0
  /\ Len(doc.equipment) > 0

\* C28: for every equipment added from the palette, the outline the exporter
\* draws for its type has the size of the template addEquipment took its nozzle
\* layout from, also when that template is the default one
ExportDrawsAddTemplate ==
  \A e \in Range(doc.equipment) :
    /\ Offsets(e, e.nozzles) = TemplateOffsets(EquipmentSymbol(e.type))
    /\ renderEquipmentToSvg(e.type) = EquipmentSymbolSize(e.type)

\* what the scenario tells of a document: each equipment with its type, position
\* and nozzle positions, the first nozzle's name, each segment's two points, and
\* the segment ids the lines hold
Observed(d) ==
  [ equipment |-> MapSeq(d.equipment, LAMBDA e :
                    [ type |-> e.type, position |-> e.position,
                      first |-> e.nozzles[1].name,
                      nozzles |-> MapSeq(e.nozzles, LAMBDA n : n.position) ]),
    segments |-> MapSeq(AllSegments(d), LAMBDA g : << g.startPoint, g.endPoint >>),
    references |-> FlattenSeq(MapSeq(AllLines(d), LAMBDA l : l.segments)) ]

PumpAt100 ==
  [ type |-> "PUMP", position |-> Pt(100, 100), first |-> "suction",
    nozzles |-> << Pt(75, 100), Pt(125, 100) >> ]

PumpAt150 ==
  [ type |-> "PUMP", position |-> Pt(150, 150), first |-> "suction",
    nozzles |-> << Pt(125, 150), Pt(175, 150) >> ]

VesselAt300 ==
  [ type |-> "VESSEL", position |-> Pt(300, 100), first |-> "top",
    nozzles |-> << Pt(300, 50), Pt(300, 150), Pt(270, 100), Pt(330, 100) >> ]

\* the only segment of the document joins the second nozzle of its first
\* equipment to the first nozzle of its second
JoinsPumpToVessel(d) ==
  /\ Len(AllSegments(d)) = 1
  /\ Len(d.equipment) = 2
  /\ AllSegments(d)[1].startConnectedTo = d.equipment[1].nozzles[2].id
  /\ AllSegments(d)[1].endConnectedTo = d.equipment[2].nozzles[1].id

\* C29: from the empty document, adding a pump at {100,100} puts its nozzles at
\* {75,100} and {125,100}; adding a vessel at {300,100} puts its first nozzle "top"
\* at {300,50}; connecting the pump's second nozzle to the vessel's first makes one
\* segment from {125,100} to {300,50}; dragging the pump to {150,150} puts its
\* nozzles at {125,150} and {175,150} and the segment's start at {175,150}, its end
\* staying; deleting the pump leaves the vessel as it was, no segment and no
\* segment id in a line
ScenarioSteps ==
  [][ /\ (doc = createEmptyDocument /\ AddEquipment("PUMP", Pt(100, 100)))
         => Observed(doc') = [ equipment |-> << PumpAt100 >>, segments |-> <<>>,
                               references |-> <<>> ]
      /\ (/\ Observed(doc) = [ equipment |-> << PumpAt100 >>, segments |-> <<>>,
                               references |-> <<>> ]
          /\ AddEquipment("VESSEL", Pt(300, 100)))
         => Observed(doc') = [ equipment |-> << PumpAt100, VesselAt300 >>,
                               segments |-> <<>>, references |-> <<>> ]
      /\ (/\ Observed(doc) = [ equipment |-> << PumpAt100, VesselAt300 >>,
                               segments |-> <<>>, references |-> <<>> ]
          /\ connectionInProgress # Null
          /\ connectionInProgress.startPort = doc.equipment[1].nozzles[2].id
          /\ MouseUpConnect(doc.equipment[2].nozzles[1].id))
         => /\ Observed(doc').equipment = << PumpAt100, VesselAt300 >>
            /\ Observed(doc').segments = << << Pt(125, 100), Pt(300, 50) >> >>
            /\ Len(Observed(doc').references) = 1
            /\ JoinsPumpToVessel(doc')
      /\ (/\ Observed(doc).equipment = << PumpAt100, VesselAt300 >>
          /\ Observed(doc).segments = << << Pt(125, 100), Pt(300, 50) >> >>
          /\ JoinsPumpToVessel(doc)
          /\ DragEnd(doc.equipment[1].id, Pt(150, 150)))
         => /\ Observed(doc').equipment = << PumpAt150, VesselAt300 >>
            /\ Observed(doc').segments = << << Pt(175, 150), Pt(300, 50) >> >>
            /\ Observed(doc').references = Observed(doc).references
            /\ JoinsPumpToVessel(doc')
      /\ (/\ Observed(doc).equipment = << PumpAt150, VesselAt300 >>
          /\ Observed(doc).segments = << << Pt(175, 150), Pt(300, 50) >> >>
          /\ JoinsPumpToVessel(doc)
          /\ selectedElement = doc.equipment[1].id
          /\ DeleteSelected)
         => /\ doc'.equipment = << doc.equipment[2] >>
            /\ Observed(doc') = [ equipment |-> << VesselAt300 >>, segments |-> <<>>,
                                  references |-> <<>> ] ]_vars

\* the scenario before its last step: the pump added first, connected to the
\* vessel, dragged to {150,150} and selected for deletion
ScenarioStepsReached ==
  /\ Observed(doc).equipment = << PumpAt150, VesselAt300 >>
  /\ Observed(doc).segments = << << Pt(175, 150), Pt(300, 50) >> >>
  /\ AllSegments(doc)[1].startConnectedTo = doc.equipment[1].nozzles[2].id
  /\ AllSegments(doc)[1].endConnectedTo = doc.equipment[2].nozzles[1].id
  /\ selectedElement = doc.equipment[1].id
  /\ connectionInProgress = Null

\* C30: after every user action, in the shell or on the canvas, the shell and
\* the Canvas hold the same document
ShellHoldsCanvasDocument == shellDocument = doc

\* C31: in every reachable state the keys of the port registry are the ids of the
\* ports of the document, and the keys of the element registry are the ids of its
\* equipment, fittings, instruments and line segments
RegistriesMatchDocument ==
  /\ DOMAIN ports = DocPortIds(doc)
  /\ DOMAIN elements = EntityIds(doc) \cup { g.id : g \in Range(AllSegments(doc)) }

\* two entities were added and connected, one was dragged, the other was deleted
\* with the segment, and the registries hold what is left
RegistriesMatchDocumentReached ==
  /\ used = [added |-> 2, connected |-> 1]
  /\ Cardinality(EntityIds(doc)) = 1
  /\ Len(AllSegments(doc)) = 0
  /\ DOMAIN ports # {}
  /\ \E p \in DocPorts(doc) : ports[p.id].startPoint # p.position

\* the places an entity is moved to: the grid positions and one off the grid
MoveTargets == Positions \cup { Pt(0 - 30, 7) }

\* the groups of the canvas that are entities of the document
MovableIds == { id \in DOMAIN elements \cap EntityIds(doc) : elements[id].type \in GroupTypes }

PositionOf(d, id) ==
  LET owners == { e \in Range(d.equipment) \cup Range(AllFittings(d))
                       \cup Range(d.instruments) : e.id = id }
  IN (CHOOSE e \in owners : TRUE).position

\* C32: for every entity of a reachable document, with its segments, a move to p
\* followed by a move to q gives the document of the move to q alone, a move to
\* the entity's own position gives the document itself, and a move to p followed
\* by a move back gives the document itself
MoveComposes ==
  \A id \in MovableIds :
    LET type == elements[id].type
        own == PositionOf(doc, id)
    IN /\ updatePosition(type, doc, id, own) = doc
       /\ \A p \in MoveTargets :
            LET moved == updatePosition(type, doc, id, p) IN
            /\ updatePosition(type, moved, id, own) = doc
            /\ \A q \in MoveTargets :
                 updatePosition(type, moved, id, q) = updatePosition(type, doc, id, q)

\* an entity that was dragged has a segment at one of its ports
MoveComposesReached ==
  \E id \in MovableIds :
    /\ \E g \in Range(AllSegments(doc)) :
         {g.startConnectedTo, g.endConnectedTo} \cap OwnedPortIds(doc, id) # {}
    /\ \E portId \in OwnedPortIds(doc, id) :
         ports[portId].startPoint # PortPosition(doc, portId)

\* C33: the document decoded from the encoding of a reachable document that holds
\* an entity has the id of the encoded document, and no equipment, network,
\* instrument, fitting, port or segment of the decoded document has that id
DocumentIdRoundTrip ==
  (EntityIds(doc) # {}) =>
    \A d \in { RoundTrip(doc) } :
      /\ d.id = doc.id
      /\ d.id \notin EntityIds(d) \cup DocPortIds(d)
                     \cup { n.id : n \in Range(d.pipingNetworks) }
                     \cup { g.id : g \in Range(AllSegments(d)) }

\* C34: in every network of every reachable document each line segment names in
\* lineId a line of the same network, and that line lists the segment
SegmentsNameTheirLine ==
  \A n \in Range(doc.pipingNetworks) :
    \A g \in Range(n.lineSegments) :
      \E l \in Range(n.lines) :
        /\ l.id = g.lineId
        /\ \E k \in 1..Len(l.segments) : l.segments[k] = g.id

\* two segments were drawn, one was deleted, the other is left
SegmentsNameTheirLineReached ==
  /\ used.connected = 2
  /\ Len(AllSegments(doc)) = 1
  /\ \E n \in Range(doc.pipingNetworks) : Len(n.lineSegments) = 1 /\ Len(n.lines) = 1

\* C35: Delete with a line segment selected takes that segment, and no other, out
\* of the segments of the document in their order, leaves its id in no line's
\* list and every other id in the lists, and leaves every equipment, fitting and
\* instrument with its ports, and every network's id and name, as they were
DeleteSegmentFrame ==
  [][ (selectedElement \in SegmentIds(doc) /\ DeleteSelected)
      => /\ AllSegments(doc') =
              SelectSeq(AllSegments(doc), LAMBDA g : g.id # selectedElement)
         /\ Len(AllSegments(doc')) = Len(AllSegments(doc)) - 1
         /\ MapSeq(AllLines(doc'), LAMBDA l : l.segments) =
              MapSeq(AllLines(doc),
                     LAMBDA l : SelectSeq(l.segments, LAMBDA id : id # selectedElement))
         /\ MapSeq(AllLines(doc'), LAMBDA l : l.id) = MapSeq(AllLines(doc), LAMBDA l : l.id)
         /\ doc'.equipment = doc.equipment
         /\ doc'.instruments = doc.instruments
         /\ MapSeq(doc'.pipingNetworks, LAMBDA n : << n.id, n.name, n.fittings >>) =
              MapSeq(doc.pipingNetworks, LAMBDA n : << n.id, n.name, n.fittings >>)
         /\ ports' = ports
    ]_vars

\* one of two segments was deleted by itself: the other and every entity are left
DeleteSegmentFrameReached ==
  /\ used.connected = 2
  /\ Len(AllSegments(doc)) = 1
  /\ Cardinality(EntityIds(doc)) = used.added
  /\ selectedElement = NoId
  /\ Cardinality(DOMAIN elements) = used.added + 1

\* C36: in the read-only Canvas no click, drag, port press, mouse release or key
\* press changes the document, the drawn elements and ports, the selection or the
\* gesture state
ReadOnlyNeverChanges ==
  [][ /\ doc' = doc
      /\ elements' = elements
      /\ ports' = ports
      /\ selectedElement' = NoId
      /\ connectionInProgress' = Null
      /\ shellDocument' = shellDocument
    ]_vars

\* a read-only Canvas showing two entities joined by a segment, after an event
ReadOnlyNeverChangesReached ==
  /\ readOnly
  /\ last = "other"
  /\ Len(AllSegments(doc)) = 1
  /\ Cardinality(EntityIds(doc)) >= 2
  /\ Cardinality(DOMAIN ports) >= 2

\* the gesture is over: no state, no dashed line, no listener
GestureCleared ==
  /\ connectionInProgress' = Null
  /\ tempLines' = 0
  /\ listeners' = {}

\* C37: with a gesture started on port a, a mouseup over a port b other than a
\* adds exactly one segment from a to b, a mouseup over a or over no port adds
\* none, and every mouseup and every Escape leaves the gesture cleared
GestureIsWellFormed ==
  [][ /\ \A b \in DOMAIN ports \cup {NoId} :
           (connectionInProgress # Null /\ MouseUpAsWritten(b))
           => /\ GestureCleared
              /\ IF b # NoId /\ b # connectionInProgress.startPort
                 THEN /\ Len(AllSegments(doc')) = Len(AllSegments(doc)) + 1
                      /\ \E sg \in Range(AllSegments(doc')) :
                           /\ sg.id \notin SegmentIds(doc)
                           /\ sg.startConnectedTo = connectionInProgress.startPort
                           /\ sg.endConnectedTo = b
                 ELSE AllSegments(doc') = AllSegments(doc)
      /\ (connectionInProgress # Null /\ KeyDownAsWritten("Escape")) => GestureCleared
    ]_vars

\* the names of the properties of a document, in order; none if it has no list
PropertyNames(d) ==
  IF Opt(d, "properties") = {} THEN <<>>
  ELSE [ i \in 1..Len(d.properties) |-> d.properties[i].name ]

\* C38: saving and reopening a document with a properties list of string, number
\* and boolean values (the empty string among them) gives a list of the same
\* length with the same names in the same order
PropertyNamesRoundTrip ==
  [][ (last' = "reopened" /\ Opt(doc, "properties") # {})
      => PropertyNames(doc') = PropertyNames(doc) ]_vars

====
